---------------------------- MODULE Spec2Model ----------------------------
(***************************************************************************)
(* A model of the iCAT-workflow helpers (package icatapi):                 *)
(*                                                                         *)
(*   - overlay.py: compute_relative_transform, get_transform_from_metadata *)
(*     and parse_transform_metadata (the CLEM overlay geometry);           *)
(*   - montage.py / align.py: generate_point_matches (process-pool fan-out *)
(*     of pointMatchClient calls).                                         *)
(*                                                                         *)
(* Numbers.  The Python code computes in floating point.  The model        *)
(* computes in exact rational arithmetic: a number is a pair <<n, d>> with *)
(* d > 0 and gcd(|n|, d) = 1.  Angles are integers in milliradians; the    *)
(* trigonometric functions are tabulated on angles whose cosine and sine   *)
(* are rational (points of the unit circle with rational coordinates), so  *)
(* that every rotation matrix of the model is an exact rotation.           *)
(***************************************************************************)
EXTENDS Integers, Sequences, FiniteSets, TLC

VARIABLES
    \* ---- overlay.py: compute_relative_transform / get_transform_from_metadata
    em,        \* EM (reference) parameters [psx, psy, ro, sh, trx, try]
    fm,        \* FM (moving) parameters    [psx, psy, ro, sh, trx, try]
    shape,     \* [FM |-> <<d0, d1>>, EM |-> <<d0, d1>>]: image_FM.shape, image_EM.shape
    A,         \* matrix returned by the last compute_relative_transform(EM=em, FM=fm)
    Aswap,     \* matrix returned by compute_relative_transform with the roles swapped
    Aprev,     \* matrix returned by the call before the translations were changed
    T,         \* matrix returned by get_transform_from_metadata
    gstep,     \* which call was made last
    \* ---- overlay.py: parse_transform_metadata
    built,     \* [theta, sx, sy, k]: how the Transform attributes were built
    attrs,     \* [A00, A01, A10, A11]: the Transform element's attributes
    rawsign,   \* <<s1, s2>>: the signs np.linalg.qr gave the diagonal of S
    parsed,    \* [rotation, shear] returned by parse_transform_metadata
    pstep,     \* "input" | "input_no_transform" | "parsed" | "parsed_no_transform"
    \* ---- montage.py / align.py: generate_point_matches
    variant,   \* "montage" | "align": which module's generate_point_matches runs
    df_pairs,  \* sequence of rows [stack, z, p, q]: 'stack', 'z', 'p.id', 'q.id'
    batch_size,
    N_cores,
    pc,        \* parent process: "idle" | "loop" | "map" | "done" | "raised"
    cur,       \* <<group, batch>> of the batch handed to pool.map (<<0, 0>>: none yet)
    task,      \* task[i]: "pending" | "queued" | "inflight" | "ok" | "failed" (the
               \* call raised)
    calls,     \* calls[i]: the pointMatchClient calls issued for row i (a sequence)
    submitted, \* submitted[i]: how many times row i was handed to a pool
    \* ---- plotting.py / render_image.py: render_bbox_image
    bmodule,   \* "plotting" | "render_image": which module's render_bbox_image runs
    bargs,     \* [z, bbox, width]: the arguments of the call
    requests,  \* the get_bb_image requests issued, in order
    printed,   \* the requests whose URL was printed as failed to load
    bret,      \* [kind, of]: what render_bbox_image returned
    bstep,     \* "input" | "returned"
    \* ---- render_transforms.py / render_pandas.py: the stack transforms
    stack_in,  \* name of the input stack
    tiles_in,  \* the tile specifications of stack_in on the server (a sequence)
    bounds_in, \* [minX, minY, maxX, maxY]: the bounds of stack_in on the server
    scall,     \* [fn, stack_out, ...]: the call made
    remote,    \* the requests sent to the server, in order: [op, stack, tiles]
    sstep,     \* "input" | "running" | "returned" | "raised" (ValueError) | "failed" (a request)
    \* ---- trakem2.py: create_trakem2_project
    kargs,     \* [given, z_values]: the z_values argument (given = FALSE: None)
    klayers,   \* klayers[z]: the tile ids of section z of the stack on the server
    kbounds,   \* [minX, minY, maxX, maxY]: the bounds of the stack on the server
    kremote,   \* the requests sent to the server, in order
    kfile,     \* what was written to xml_filepath, in order (<<>>: nothing)
    kstep,     \* "input" | "returned" | "raised"
    \* ---- montage.py: get_tile_pairs_4_montage
    tz_values, \* the z values of the stack on the server (ascending)
    tpairs,    \* tpairs[z]: the neighbor pairs the server finds for section z
    targs,     \* [stack, kwargs]: the arguments of the call
    ti,        \* how many z values the loop has gone through
    trequests, \* the tilePairClient requests issued, in order
    trows,     \* df_pairs: the rows collected so far
    tret,      \* the returned table (<<>> until the function returns)
    tstep,     \* "loop" | "returned" | "raised"
    \* ---- align.py: delete_match_collection; plotting.py: clear_image_cache;
    \* ---- and the wrappers that pass render on to renderapi
    wsession,  \* [host, owner, project]: the render session given by the caller
    wcall,     \* [fn, arg]: the wrapper called
    wzvalues,  \* the z values of the stack named in the call, on the server
    wrequests, \* the remote requests issued: [host, owner, project, path]
    wstep,     \* "input" | "loop" | "returned" | "raised"
    \* ---- correlate.py: bboxes_overlap
    bbox_1,    \* <<minX, minY, maxX, maxY>>
    bbox_2,    \* <<minX, minY, maxX, maxY>>
    overlap,   \* the value returned
    ostep,     \* "input" | "returned"
    \* ---- overlay.py: parse_overlay_report
    rreport,   \* [grid, Nx, Ny, literals, order]: what the report file holds
    rcoords,   \* the spot coordinates in SEM reference, in file order
    rret,      \* coords_EM as returned
    rstep,     \* "input" | "returned"
    \* ---- montage.py: generate_point_matches, the SIFT options of each call
    fpairs,    \* the rows of one group of df_pairs: their p.relativePosition
    fbatch_size, \* batch_size
    fgiven,    \* the fields of the caller's sift_options object at entry
    fheap,     \* the SiftPointMatchOptions instances: identity -> fields (0: the caller's)
    flocal,    \* the instance the local name sift_options is bound to
    foptions,  \* sift_options_batch: the instances made for the current batch
    fnext,     \* the next row of df_pairs to be handled
    fcalls,    \* the pointMatchClient calls, in the order made: [row, instance, sift_options]
    fcores,    \* N_cores
    ftask,     \* ftask[k]: the task pool.map made of the k-th element of the batch
    fstep,     \* "loop" | "map" | "returned" | "raised"
    \* ---- render_pandas.py: upload_stack_DataFrame; trakem2.py: import_trakem2_project
    uargs,     \* [fn, name]: the function called and the stack name given (None: not given)
    utiles,    \* the rows of df / the patches of the xml file: [stack, valid]
    ustack,    \* the stack name the function works on
    ubuilt,    \* how many tile specifications have been built
    urequests, \* the requests made to the tile store: [op, stack, tiles, state, ok]
    ustep,     \* "start" | "build" | "create" | "import" | "close" | "returned" | "raised"
    \* ---- plotting.py / render_image.py: render_stack_images
    imodule,   \* "plotting" | "render_image"
    iargs,     \* [width]: the width argument
    iz_values, \* the z values of the stack on the server
    ibbox,     \* the bounds of the stack on the server: <<minX, minY, maxX, maxY>>
    ii,        \* how many z values the loop has gone through
    irequests, \* the get_bb_image requests issued, in order
    images,    \* the dictionary being filled: z -> image
    istep,     \* "start" | "loop" | "returned" | "raised"
    \* ---- trakem2.py: create_patch_xml and the parsing of its transform attribute
    xtforms,   \* ts.tforms: the transform list of the tile
    xAT,       \* AT: the total transform computed by create_patch_xml
    xattr,     \* the text of the transform attribute, as characters
    xparsed,   \* the AffineModel import_trakem2_project makes from the attribute
    xstep      \* "input" | "exported" | "imported" | "raised"

gvars == <<em, fm, shape, A, Aswap, Aprev, T, gstep>>
pvars == <<built, attrs, rawsign, parsed, pstep>>
mvars == <<variant, df_pairs, batch_size, N_cores, pc, cur, task, calls, submitted>>
bvars == <<bmodule, bargs, requests, printed, bret, bstep>>
svars == <<stack_in, tiles_in, bounds_in, scall, remote, sstep>>
kvars == <<kargs, klayers, kbounds, kremote, kfile, kstep>>
tvars == <<tz_values, tpairs, targs, ti, trequests, trows, tret, tstep>>
wvars == <<wsession, wcall, wzvalues, wrequests, wstep>>
ovars == <<bbox_1, bbox_2, overlap, ostep>>
rvars == <<rreport, rcoords, rret, rstep>>
fvars == <<fpairs, fbatch_size, fgiven, fheap, flocal, foptions, fnext, fcalls, fcores, ftask, fstep>>
uvars == <<uargs, utiles, ustack, ubuilt, urequests, ustep>>
ivars == <<imodule, iargs, iz_values, ibbox, ii, irequests, images, istep>>
avars == <<xtforms, xAT, xattr, xparsed, xstep>>
xvars == <<bvars, svars, kvars, tvars, wvars, ovars, rvars, fvars, uvars, ivars, avars>>

\* what an action of one component leaves unchanged in the others
ExceptRender == <<gvars, pvars, mvars, svars, kvars, tvars, wvars, ovars, rvars, fvars, uvars, ivars, avars>>
ExceptStack == <<gvars, pvars, mvars, bvars, kvars, tvars, wvars, ovars, rvars, fvars, uvars, ivars, avars>>
ExceptTrakem == <<gvars, pvars, mvars, bvars, svars, tvars, wvars, ovars, rvars, fvars, uvars, ivars, avars>>
ExceptPairs == <<gvars, pvars, mvars, bvars, svars, kvars, wvars, ovars, rvars, fvars, uvars, ivars, avars>>
ExceptSession == <<gvars, pvars, mvars, bvars, svars, kvars, tvars, ovars, rvars, fvars, uvars, ivars, avars>>
ExceptOverlap == <<gvars, pvars, mvars, bvars, svars, kvars, tvars, wvars, rvars, fvars, uvars, ivars, avars>>
ExceptReport == <<gvars, pvars, mvars, bvars, svars, kvars, tvars, wvars, ovars, fvars, uvars, ivars, avars>>
ExceptSift == <<gvars, pvars, mvars, bvars, svars, kvars, tvars, wvars, ovars, rvars, uvars, ivars, avars>>
ExceptLifecycle == <<gvars, pvars, mvars, bvars, svars, kvars, tvars, wvars, ovars, rvars, fvars, ivars, avars>>
ExceptImages == <<gvars, pvars, mvars, bvars, svars, kvars, tvars, wvars, ovars, rvars, fvars, uvars, avars>>
ExceptPatch == <<gvars, pvars, mvars, bvars, svars, kvars, tvars, wvars, ovars, rvars, fvars, uvars, ivars>>
vars  == <<gvars, pvars, mvars, xvars>>

None == "None"

-----------------------------------------------------------------------------
(* Exact rational arithmetic (the model's stand-in for Python floats).     *)

Abs(x) == IF x < 0 THEN -x ELSE x

RECURSIVE Gcd(_, _)
Gcd(a, b) == IF b = 0 THEN a ELSE Gcd(b, a % b)

\* n/d in lowest terms with a positive denominator
Rat(n, d) ==
    LET s == IF d < 0 THEN -1 ELSE 1
        g == Gcd(Abs(n), Abs(d))
    IN  <<(s * n) \div g, (s * d) \div g>>

I2R(k) == <<k, 1>>

RNeg(a) == <<-a[1], a[2]>>

RAdd(a, b) ==
    LET g == Gcd(a[2], b[2])
    IN  Rat(a[1] * (b[2] \div g) + b[1] * (a[2] \div g), (a[2] \div g) * b[2])

RSub(a, b) == RAdd(a, RNeg(b))

\* cross-cancel before multiplying, to keep the integers small
RMul(a, b) ==
    LET g1 == Gcd(Abs(a[1]), b[2])
        g2 == Gcd(Abs(b[1]), a[2])
    IN  IF a[1] = 0 \/ b[1] = 0 THEN <<0, 1>>
        ELSE <<(a[1] \div g1) * (b[1] \div g2), (a[2] \div g2) * (b[2] \div g1)>>

RInv(a) == Rat(a[2], a[1])

RDiv(a, b) == RMul(a, RInv(b))

RSign(a) == IF a[1] > 0 THEN 1 ELSE IF a[1] < 0 THEN -1 ELSE 0

RLess(a, b) == RSign(RSub(a, b)) < 0

RAbs(a) == <<Abs(a[1]), a[2]>>

Zero == <<0, 1>>
One  == <<1, 1>>

-----------------------------------------------------------------------------
(* 3x3 matrices of rationals, as numpy arrays: M[row][column], 1-based.    *)

Identity3 == << <<One, Zero, Zero>>, <<Zero, One, Zero>>, <<Zero, Zero, One>> >>

\* np.dot(X, Y)
MatMul(X, Y) ==
    [i \in 1..3 |-> [j \in 1..3 |->
        RAdd(RAdd(RMul(X[i][1], Y[1][j]), RMul(X[i][2], Y[2][j])),
             RMul(X[i][3], Y[3][j]))]]

\* the matrix applied to the point <<x, y>> (homogeneous coordinate 1)
ApplyPoint(M, p) ==
    << RAdd(RAdd(RMul(M[1][1], p[1]), RMul(M[1][2], p[2])), M[1][3]),
       RAdd(RAdd(RMul(M[2][1], p[1]), RMul(M[2][2], p[2])), M[2][3]) >>

-----------------------------------------------------------------------------
(* Trigonometry.  Angles are integers in milliradians.  TwoPi is 2*np.pi   *)
(* in milliradians.  CosSin tabulates (cos, sin) for the angles of the     *)
(* model: each is the rounding to a milliradian of the argument of a       *)
(* rational point of the unit circle (0.1 rad is the point (399/401,       *)
(* 40/401), whose argument is 0.09996 rad).  The table is closed under     *)
(* negation modulo 2*pi.                                                   *)

TwoPi == 6283

TableAngles == {0, 100, 644, 927, 1571, 2215, 4068, 4712, 5356, 5639, 6183}

CosSin(a) ==
    LET k == a % TwoPi
    IN  CASE k = 0    -> << <<1, 1>>,     <<0, 1>> >>
          [] k = 100  -> << <<399, 401>>, <<40, 401>> >>
          [] k = 644  -> << <<4, 5>>,     <<3, 5>> >>
          [] k = 927  -> << <<3, 5>>,     <<4, 5>> >>
          [] k = 1571 -> << <<0, 1>>,     <<1, 1>> >>
          [] k = 2215 -> << <<-3, 5>>,    <<4, 5>> >>
          [] k = 4068 -> << <<-3, 5>>,    <<-4, 5>> >>
          [] k = 4712 -> << <<0, 1>>,     <<-1, 1>> >>
          [] k = 5356 -> << <<3, 5>>,     <<-4, 5>> >>
          [] k = 5639 -> << <<4, 5>>,     <<-3, 5>> >>
          [] k = 6183 -> << <<399, 401>>, <<-40, 401>> >>

Cos(a) == CosSin(a)[1]
Sin(a) == CosSin(a)[2]
Tan(a) == RDiv(Sin(a), Cos(a))

\* np.arctan2(y, x): the angle in (-pi, pi] of the direction (x, y)
ArcTan2(y, x) ==
    IF RSign(x) = 0 /\ RSign(y) = 0 THEN 0
    ELSE LET k == CHOOSE a \in TableAngles :
                      /\ RMul(x, Sin(a)) = RMul(y, Cos(a))
                      /\ RSign(RAdd(RMul(x, Cos(a)), RMul(y, Sin(a)))) > 0
         IN  IF 2 * k <= TwoPi THEN k ELSE k - TwoPi

-----------------------------------------------------------------------------
(* matplotlib.transforms.Affine2D as overlay.py uses it: every method      *)
(* multiplies the transform's matrix on the left by an elementary matrix   *)
(* and returns the transform, so a chain applies its methods in the order  *)
(* they are written.                                                       *)

AffineMPL == Identity3

rotate(M, theta) ==
    MatMul(<< <<Cos(theta), RNeg(Sin(theta)), Zero>>,
              <<Sin(theta), Cos(theta),       Zero>>,
              <<Zero,       Zero,             One>> >>, M)

skew(M, xShear, yShear) ==
    MatMul(<< <<One,         Tan(xShear), Zero>>,
              <<Tan(yShear), One,         Zero>>,
              <<Zero,        Zero,        One>> >>, M)

scale(M, sx, sy) ==
    MatMul(<< <<sx,   Zero, Zero>>,
              <<Zero, sy,   Zero>>,
              <<Zero, Zero, One>> >>, M)

\* a translation that writes tx, ty into the wrong column
translate_WrongColumn(M, tx, ty) ==
    MatMul(<< <<One,  tx,   Zero>>,
              <<ty,   One,  Zero>>,
              <<Zero, Zero, One>> >>, M)

translate(M, tx, ty) ==
    MatMul(<< <<One,  Zero, tx>>,
              <<Zero, One,  ty>>,
              <<Zero, Zero, One>> >>, M)

-----------------------------------------------------------------------------
(* overlay.py: compute_relative_transform                                  *)

\* rotation by +ro_FM instead of -ro_FM
compute_relative_transform_RotationSign(psx_EM, psy_EM, ro_EM, sh_EM, trx_EM, try_EM, psx_FM, psy_FM, ro_FM, sh_FM, trx_FM, try_FM) ==
    translate(scale(skew(rotate(AffineMPL, ro_FM), 0, -sh_EM),
                    Rat(psx_FM, psx_EM), Rat(psy_FM, psy_EM)),
              Rat(trx_FM - trx_EM, psx_EM), Rat(try_FM - try_EM, -psy_EM))

\* scale applied before the shear
compute_relative_transform_ScaleFirst(psx_EM, psy_EM, ro_EM, sh_EM, trx_EM, try_EM, psx_FM, psy_FM, ro_FM, sh_FM, trx_FM, try_FM) ==
    translate(skew(scale(rotate(AffineMPL, -ro_FM),
                         Rat(psx_FM, psx_EM), Rat(psy_FM, psy_EM)), 0, -sh_EM),
              Rat(trx_FM - trx_EM, psx_EM), Rat(try_FM - try_EM, -psy_EM))

\* translation normalized by the FM pixel size
compute_relative_transform_NormByFM(psx_EM, psy_EM, ro_EM, sh_EM, trx_EM, try_EM, psx_FM, psy_FM, ro_FM, sh_FM, trx_FM, try_FM) ==
    translate(scale(skew(rotate(AffineMPL, -ro_FM), 0, -sh_EM),
                    Rat(psx_FM, psx_EM), Rat(psy_FM, psy_EM)),
              Rat(trx_FM - trx_EM, psx_FM), Rat(try_FM - try_EM, -psy_FM))

compute_relative_transform(psx_EM, psy_EM, ro_EM, sh_EM, trx_EM, try_EM, psx_FM, psy_FM, ro_FM, sh_FM, trx_FM, try_FM) ==
    translate(scale(skew(rotate(AffineMPL, -ro_FM), 0, -sh_EM),
                    Rat(psx_FM, psx_EM), Rat(psy_FM, psy_EM)),
              Rat(trx_FM - trx_EM, psx_EM), Rat(try_FM - try_EM, -psy_EM))

\* the call with the parameter records of the two modalities
RelativeTransform(e, f) ==
    compute_relative_transform(e.psx, e.psy, e.ro, e.sh, e.trx, e.try,
                               f.psx, f.psy, f.ro, f.sh, f.trx, f.try)

(* overlay.py: get_transform_from_metadata, from the parsed metadata on    *)
(* (lines 232-251); shFM, shEM are image_FM.shape and image_EM.shape.      *)
get_transform_from_metadata(e, f, shFM, shEM) ==
    LET x0_FM == Rat(shFM[1], 2)
        y0_FM == Rat(shFM[2], 2)
        x0_EM == Rat(shEM[1], 2)
        y0_EM == Rat(shEM[2], 2)
        sx    == Rat(f.psx, e.psx)
        sy    == Rat(f.psy, e.psy)
        theta == -f.ro
        shear == -e.sh
        tx    == Rat(f.trx - e.trx, e.psx)
        ty    == Rat(-(f.try - e.try), e.psy)
    IN  translate(
          translate(
            scale(
              skew(
                rotate(
                  translate(AffineMPL, RNeg(x0_FM), RNeg(y0_FM)),
                  theta),
                0, shear),
              sx, sy),
            tx, ty),
          x0_EM, y0_EM)

-----------------------------------------------------------------------------
(* The inputs of the overlay geometry: pixel sizes and translations in nm, *)
(* rotation and shear in milliradians.                                     *)

PixelSizes   == {<<5, 5>>, <<100, 100>>, <<5, 10>>}
Rotations    == {0, 100, 644}
Shears       == {0, 644}
Translations == {<<0, 0>>, <<50, 50>>, <<50, 20>>}
Shapes       == {<<4, 4>>, <<4, 8>>}

Params ==
    { [psx |-> ps[1], psy |-> ps[2], ro |-> r, sh |-> s, trx |-> t[1], try |-> t[2]] :
        ps \in PixelSizes, r \in Rotations, s \in Shears, t \in Translations }

WithTranslation(p, t) == [p EXCEPT !.trx = t[1], !.try = t[2]]

\* the other components stay as constructed
ParseIdle ==
    /\ built = None /\ attrs = None /\ rawsign = None /\ parsed = None
    /\ pstep = "idle"

MatchIdle ==
    /\ variant = None /\ df_pairs = <<>> /\ batch_size = 1 /\ N_cores = 1
    /\ pc = "idle" /\ cur = <<0, 0>> /\ task = <<>> /\ calls = <<>> /\ submitted = <<>>

OverlayIdle ==
    /\ em = None /\ fm = None /\ shape = None
    /\ A = None /\ Aswap = None /\ Aprev = None /\ T = None
    /\ gstep = "idle"

RenderIdle ==
    /\ bmodule = None /\ bargs = None /\ requests = <<>> /\ printed = <<>>
    /\ bret = None /\ bstep = "idle"

StackIdle ==
    /\ stack_in = None /\ tiles_in = <<>> /\ bounds_in = None
    /\ scall = None /\ remote = <<>> /\ sstep = "idle"

TrakemIdle ==
    /\ kargs = None /\ klayers = <<>> /\ kbounds = None
    /\ kremote = <<>> /\ kfile = <<>> /\ kstep = "idle"

PairsIdle ==
    /\ tz_values = <<>> /\ tpairs = <<>> /\ targs = None /\ ti = 0
    /\ trequests = <<>> /\ trows = <<>> /\ tret = <<>> /\ tstep = "idle"

SessionIdle ==
    /\ wsession = None /\ wcall = None /\ wzvalues = <<>> /\ wrequests = <<>>
    /\ wstep = "idle"

OverlapIdle ==
    /\ bbox_1 = None /\ bbox_2 = None /\ overlap = None /\ ostep = "idle"

ReportIdle ==
    /\ rreport = None /\ rcoords = <<>> /\ rret = <<>> /\ rstep = "idle"

SiftIdle ==
    /\ fpairs = <<>> /\ fbatch_size = 0 /\ fgiven = None /\ fheap = <<>>
    /\ flocal = 0 /\ foptions = <<>> /\ fnext = 0 /\ fcalls = <<>>
    /\ fcores = 0 /\ ftask = <<>> /\ fstep = "idle"

LifecycleIdle ==
    /\ uargs = None /\ utiles = <<>> /\ ustack = None /\ ubuilt = 0
    /\ urequests = <<>> /\ ustep = "idle"

ImagesIdle ==
    /\ imodule = None /\ iargs = None /\ iz_values = <<>> /\ ibbox = None /\ ii = 0
    /\ irequests = <<>> /\ images = <<>> /\ istep = "idle"

PatchIdle ==
    /\ xtforms = <<>> /\ xAT = None /\ xattr = <<>> /\ xparsed = None /\ xstep = "idle"

\* the components modelled further below, as constructed
OthersIdle ==
    /\ RenderIdle
    /\ StackIdle
    /\ TrakemIdle
    /\ PairsIdle
    /\ SessionIdle
    /\ OverlapIdle
    /\ ReportIdle
    /\ SiftIdle
    /\ LifecycleIdle
    /\ ImagesIdle
    /\ PatchIdle

\* the other components as constructed, seen from each of them
IdleExceptRender ==
    /\ OverlayIdle /\ ParseIdle /\ MatchIdle
    /\ StackIdle
    /\ TrakemIdle
    /\ PairsIdle
    /\ SessionIdle
    /\ OverlapIdle
    /\ ReportIdle
    /\ SiftIdle
    /\ LifecycleIdle
    /\ ImagesIdle
    /\ PatchIdle
IdleExceptStack ==
    /\ OverlayIdle /\ ParseIdle /\ MatchIdle
    /\ RenderIdle
    /\ TrakemIdle
    /\ PairsIdle
    /\ SessionIdle
    /\ OverlapIdle
    /\ ReportIdle
    /\ SiftIdle
    /\ LifecycleIdle
    /\ ImagesIdle
    /\ PatchIdle
IdleExceptTrakem ==
    /\ OverlayIdle /\ ParseIdle /\ MatchIdle
    /\ RenderIdle
    /\ StackIdle
    /\ PairsIdle
    /\ SessionIdle
    /\ OverlapIdle
    /\ ReportIdle
    /\ SiftIdle
    /\ LifecycleIdle
    /\ ImagesIdle
    /\ PatchIdle
IdleExceptPairs ==
    /\ OverlayIdle /\ ParseIdle /\ MatchIdle
    /\ RenderIdle
    /\ StackIdle
    /\ TrakemIdle
    /\ SessionIdle
    /\ OverlapIdle
    /\ ReportIdle
    /\ SiftIdle
    /\ LifecycleIdle
    /\ ImagesIdle
    /\ PatchIdle
IdleExceptSession ==
    /\ OverlayIdle /\ ParseIdle /\ MatchIdle
    /\ RenderIdle
    /\ StackIdle
    /\ TrakemIdle
    /\ PairsIdle
    /\ OverlapIdle
    /\ ReportIdle
    /\ SiftIdle
    /\ LifecycleIdle
    /\ ImagesIdle
    /\ PatchIdle
IdleExceptOverlap ==
    /\ OverlayIdle /\ ParseIdle /\ MatchIdle
    /\ RenderIdle
    /\ StackIdle
    /\ TrakemIdle
    /\ PairsIdle
    /\ SessionIdle
    /\ ReportIdle
    /\ SiftIdle
    /\ LifecycleIdle
    /\ ImagesIdle
    /\ PatchIdle
IdleExceptReport ==
    /\ OverlayIdle /\ ParseIdle /\ MatchIdle
    /\ RenderIdle
    /\ StackIdle
    /\ TrakemIdle
    /\ PairsIdle
    /\ SessionIdle
    /\ OverlapIdle
    /\ SiftIdle
    /\ LifecycleIdle
    /\ ImagesIdle
    /\ PatchIdle
IdleExceptSift ==
    /\ OverlayIdle /\ ParseIdle /\ MatchIdle
    /\ RenderIdle
    /\ StackIdle
    /\ TrakemIdle
    /\ PairsIdle
    /\ SessionIdle
    /\ OverlapIdle
    /\ ReportIdle
    /\ LifecycleIdle
    /\ ImagesIdle
    /\ PatchIdle
IdleExceptLifecycle ==
    /\ OverlayIdle /\ ParseIdle /\ MatchIdle
    /\ RenderIdle
    /\ StackIdle
    /\ TrakemIdle
    /\ PairsIdle
    /\ SessionIdle
    /\ OverlapIdle
    /\ ReportIdle
    /\ SiftIdle
    /\ ImagesIdle
    /\ PatchIdle
IdleExceptImages ==
    /\ OverlayIdle /\ ParseIdle /\ MatchIdle
    /\ RenderIdle
    /\ StackIdle
    /\ TrakemIdle
    /\ PairsIdle
    /\ SessionIdle
    /\ OverlapIdle
    /\ ReportIdle
    /\ SiftIdle
    /\ LifecycleIdle
    /\ PatchIdle
IdleExceptPatch ==
    /\ OverlayIdle /\ ParseIdle /\ MatchIdle
    /\ RenderIdle
    /\ StackIdle
    /\ TrakemIdle
    /\ PairsIdle
    /\ SessionIdle
    /\ OverlapIdle
    /\ ReportIdle
    /\ SiftIdle
    /\ LifecycleIdle
    /\ ImagesIdle

Init ==
    /\ em \in Params
    /\ fm \in Params
    /\ shape = None
    /\ A = None /\ Aswap = None /\ Aprev = None /\ T = None
    /\ gstep = "input"
    /\ ParseIdle
    /\ MatchIdle
    /\ OthersIdle

\* A = compute_relative_transform(EM = em, FM = fm)
ComputeRelativeTransform ==
    /\ gstep = "input"
    /\ A' = RelativeTransform(em, fm)
    /\ gstep' = "forward"
    /\ UNCHANGED <<em, fm, shape, Aswap, Aprev, T, pvars, mvars, xvars>>

\* the same call with the roles of the two parameter sets swapped
ComputeSwapped ==
    /\ gstep = "forward"
    /\ Aswap' = RelativeTransform(fm, em)
    /\ gstep' = "roundtrip"
    /\ UNCHANGED <<em, fm, shape, A, Aprev, T, pvars, mvars, xvars>>

\* a second call whose inputs differ from the first only in the translations
Retranslate(te, tf) ==
    /\ gstep = "forward"
    /\ em' = WithTranslation(em, te)
    /\ fm' = WithTranslation(fm, tf)
    /\ Aprev' = A
    /\ A' = RelativeTransform(em', fm')
    /\ gstep' = "retranslated"
    /\ UNCHANGED <<shape, Aswap, T, pvars, mvars, xvars>>

\* T = get_transform_from_metadata(filepath) for images of the given shapes
GetTransformFromMetadata(shFM, shEM) ==
    /\ gstep = "input"
    /\ shape' = [FM |-> shFM, EM |-> shEM]
    /\ T' = get_transform_from_metadata(em, fm, shFM, shEM)
    /\ gstep' = "chained"
    /\ UNCHANGED <<em, fm, A, Aswap, Aprev, pvars, mvars, xvars>>

Next ==
    \/ ComputeRelativeTransform
    \/ ComputeSwapped
    \/ \E te \in Translations, tf \in Translations : Retranslate(te, tf)
    \/ \E shFM \in Shapes, shEM \in Shapes : GetTransformFromMetadata(shFM, shEM)

Spec == Init /\ [][Next]_vars

-----------------------------------------------------------------------------
(* Properties of compute_relative_transform and get_transform_from_metadata *)

\* the tolerance of the comparisons "within floating-point tolerance"
Tol == <<1, 1000>>

WithinTol(X, Y) ==
    \A i \in 1..3, j \in 1..3 : ~RLess(Tol, RAbs(RSub(X[i][j], Y[i][j])))

\* the upper-left 2x2 rotation/scale/shear sub-block
LinearBlock(M) == << <<M[1][1], M[1][2]>>, <<M[2][1], M[2][2]>> >>

\* the translation column
TranslationColumn(M) == <<M[1][3], M[2][3]>>

\* the rotation angle of a matrix scale * rotation: arctan2(M[1,0], M[0,0])
RotationAngleOf(M) == ArcTan2(M[2][1], M[1][1])

\* the scale factor left when that rotation is taken out on the right
ScaleBlockOf(M) == LinearBlock(MatMul(M, rotate(Identity3, -RotationAngleOf(M))))

\* the elementary maps applied to a point <<x, y>>
RotateP(p, theta) ==
    << RSub(RMul(Cos(theta), p[1]), RMul(Sin(theta), p[2])),
       RAdd(RMul(Sin(theta), p[1]), RMul(Cos(theta), p[2])) >>

ShearP(p, xShear, yShear) ==
    << RAdd(p[1], RMul(Tan(xShear), p[2])),
       RAdd(p[2], RMul(Tan(yShear), p[1])) >>

ScaleP(p, sx, sy) == << RMul(sx, p[1]), RMul(sy, p[2]) >>

TranslateP(p, tx, ty) == << RAdd(p[1], tx), RAdd(p[2], ty) >>

\* three affinely independent points determine an affine map
TestPoints == { <<Zero, Zero>>, <<One, Zero>>, <<Zero, One>> }

\* rotate by -ro_FM, then shear by -sh_EM, then scale, then translate
RotateShearScaleTranslate(e, f, p) ==
    TranslateP(
      ScaleP(
        ShearP(RotateP(p, -f.ro), 0, -e.sh),
        Rat(f.psx, e.psx), Rat(f.psy, e.psy)),
      Rat(f.trx - e.trx, e.psx), Rat(f.try - e.try, -e.psy))

\* C1 (as claimed): the product of the forward transform (EM = P, FM = Q)
\* and the transform with the roles swapped (EM = Q, FM = P) is the 3x3
\* identity, within tolerance, for any two parameter sets P and Q.
C1_RoundTripIsIdentity ==
    gstep = "roundtrip" => WithinTol(MatMul(A, Aswap), Identity3)

\* C2 (as claimed): when the FM and EM rotations, shears, translations and
\* pixel sizes are equal, compute_relative_transform returns exactly the
\* identity matrix.
C2_IdentityWhenEqual ==
    ( /\ gstep = "forward"
      /\ em.ro = fm.ro /\ em.sh = fm.sh
      /\ em.trx = fm.trx /\ em.try = fm.try
      /\ em.psx = fm.psx /\ em.psy = fm.psy )
    => A = Identity3

\* C3: two calls whose inputs differ only in the translation arguments
\* return matrices with the same upper-left 2x2 sub-block and the same
\* bottom row; only the translation column may differ.
C3_TranslationOnlyMovesColumn ==
    gstep = "retranslated" =>
        /\ LinearBlock(A) = LinearBlock(Aprev)
        /\ A[3] = Aprev[3]

C3_Witness ==
    /\ gstep = "retranslated"
    /\ TranslationColumn(A) # TranslationColumn(Aprev)
    /\ fm.ro # 0 /\ em.sh # 0 /\ fm.psx # em.psx

\* the end-to-end scenario: lengths in nm, 0.1 rad = 100 mrad
ScenarioEM == [psx |-> 5, psy |-> 5, ro |-> 0, sh |-> 0, trx |-> 0, try |-> 0]
ScenarioFM == [psx |-> 100, psy |-> 100, ro |-> 100, sh |-> 0, trx |-> 50, try |-> 50]

\* C4: for EM pixel size (5,5), rotation 0, shear 0, translation (0,0) and
\* FM pixel size (100,100), rotation 0.1 rad, shear 0, translation (50,50),
\* the returned matrix has scale sub-block diag(20, 20) and rotation angle
\* -0.1 rad.
C4_Scenario ==
    (gstep = "forward" /\ em = ScenarioEM /\ fm = ScenarioFM) =>
        /\ ScaleBlockOf(A) = << <<I2R(20), Zero>>, <<Zero, I2R(20)>> >>
        /\ RotationAngleOf(A) = -100

C4_Witness == gstep = "forward" /\ em = ScenarioEM /\ fm = ScenarioFM

\* C6: the returned matrix acts on a moving-image point as the rotation by
\* -ro_FM first, then the shear by -sh_EM, then the scaling by
\* (psx_FM/psx_EM, psy_FM/psy_EM), and the translation last;
\* get_transform_from_metadata applies the same sequence between the
\* translation by minus the FM image centre and the translation by the EM
\* image centre.
C6_RotateShearScaleTranslate ==
    /\ gstep = "forward" =>
          /\ A[3] = <<Zero, Zero, One>>
          /\ \A p \in TestPoints :
                ApplyPoint(A, p) = RotateShearScaleTranslate(em, fm, p)
    /\ gstep = "chained" =>
          /\ T[3] = <<Zero, Zero, One>>
          /\ \A p \in TestPoints :
                ApplyPoint(T, p) =
                  TranslateP(
                    RotateShearScaleTranslate(em, fm,
                      TranslateP(p, Rat(-shape.FM[1], 2), Rat(-shape.FM[2], 2))),
                    Rat(shape.EM[1], 2), Rat(shape.EM[2], 2))

C6_Witness ==
    /\ gstep = "forward"
    /\ fm.ro # 0 /\ em.sh # 0
    /\ fm.psx * em.psy # fm.psy * em.psx
    /\ TranslationColumn(A) # <<Zero, Zero>>

\* C7 (as claimed): the translation column is the stage offset normalized by
\* the EM pixel size: x = (trx_FM - trx_EM) / psx_EM and
\* y = (try_FM - try_EM) / psy_EM.
C7_TranslationNormalized ==
    gstep = "forward" =>
        TranslationColumn(A) = << Rat(fm.trx - em.trx, em.psx),
                                  Rat(fm.try - em.try, em.psy) >>

\* C7 (amended): x = (trx_FM - trx_EM) / psx_EM and
\* y = -(try_FM - try_EM) / psy_EM (the y axis is inverted); the column does
\* not depend on the FM pixel size, rotation or shear, and
\* get_transform_from_metadata uses the same translation between its two
\* centring translations.
C7_TranslationNormalizedYInverted ==
    /\ gstep = "forward" =>
          /\ TranslationColumn(A) = << Rat(fm.trx - em.trx, em.psx),
                                       RNeg(Rat(fm.try - em.try, em.psy)) >>
          /\ \A f \in Params :
                (f.trx = fm.trx /\ f.try = fm.try) =>
                    TranslationColumn(RelativeTransform(em, f)) = TranslationColumn(A)
    /\ gstep = "chained" =>
          T = translate(
                MatMul(RelativeTransform(em, fm),
                       translate(Identity3, Rat(-shape.FM[1], 2), Rat(-shape.FM[2], 2))),
                Rat(shape.EM[1], 2), Rat(shape.EM[2], 2))

C7_Witness ==
    /\ gstep = "forward"
    /\ fm.try # em.try /\ fm.trx # em.trx
    /\ fm.psx # em.psx /\ em.psx # em.psy
    /\ fm.ro # 0 /\ em.sh # 0

-----------------------------------------------------------------------------
(* overlay.py: parse_transform_metadata, the Transform element (lines      *)
(* 69-89).  2x2 matrices are tuples of rows.                               *)

\* floor of the square root of a natural number, by bisection on lo..hi
RECURSIVE ISqrtIn(_, _, _)
ISqrtIn(n, lo, hi) ==
    IF lo >= hi THEN lo
    ELSE LET mid == (lo + hi + 1) \div 2
         IN  IF mid * mid <= n THEN ISqrtIn(n, mid, hi) ELSE ISqrtIn(n, lo, mid - 1)

ISqrt(n) == ISqrtIn(n, 0, IF n < 46340 THEN n ELSE 46340)

IsSquare(n) == ISqrt(n) * ISqrt(n) = n

\* the rationals whose square root is rational, and that root
HasExactRoot(a) == a[1] >= 0 /\ IsSquare(a[1]) /\ IsSquare(a[2])
RSqrt(a) == <<ISqrt(a[1]), ISqrt(a[2])>>

Dot2(u, v) == RAdd(RMul(u[1], v[1]), RMul(u[2], v[2]))

Column(M, j) == <<M[1][j], M[2][j]>>
Norm(v) == RSqrt(Dot2(v, v))
Normalized(v, n) == <<RDiv(v[1], n), RDiv(v[2], n)>>

\* v minus its component along the unit vector q
Rejection(v, q, along) ==
    <<RSub(v[1], RMul(along, q[1])), RSub(v[2], RMul(along, q[2]))>>

\* the QR factors with a positive diagonal of S (Gram-Schmidt on the
\* columns a1, a2), in steps: q1, then u = a2 - (q1.a2) q1, then q2
QRFromU(a1, a2, q1, u, q2) ==
    [Q |-> << <<q1[1], q2[1]>>, <<q1[2], q2[2]>> >>,
     S |-> << <<Norm(a1), Dot2(q1, a2)>>, <<Zero, Norm(u)>> >>]

QRFromQ1(a1, a2, q1, u) == QRFromU(a1, a2, q1, u, Normalized(u, Norm(u)))

QRFromColumns(a1, a2, q1) == QRFromQ1(a1, a2, q1, Rejection(a2, q1, Dot2(q1, a2)))

QRPositive(M) ==
    QRFromColumns(Column(M, 1), Column(M, 2), Normalized(Column(M, 1), Norm(Column(M, 1))))

\* the factors Q*D, D*S for the diagonal sign matrix D = diag(sg)
Signed(f, sg) ==
    [R |-> [i \in 1..2 |-> [j \in 1..2 |-> RMul(I2R(sg[j]), f.Q[i][j])]],
     S |-> [i \in 1..2 |-> [j \in 1..2 |-> RMul(I2R(sg[i]), f.S[i][j])]]]

(* np.linalg.qr(A): the factorization is unique up to the signs of the     *)
(* diagonal of S, which numpy leaves to LAPACK; sg[j] is the sign of       *)
(* S[j][j] in the factors returned.                                        *)
qr(M, sg) == Signed(QRPositive(M), sg)

\* line 77-78: A = np.array([[A00, A10], [A01, A11]])
AssembleA(at) == << <<at.A00, at.A10>>, <<at.A01, at.A11>> >>

\* lines 80-82: mask = np.diag(S) < 0.; R[:, mask] *= -1.; S[mask, :] *= -1.
SignNormalized(RS) ==
    [R |-> [i \in 1..2 |-> [j \in 1..2 |->
              IF RSign(RS.S[j][j]) < 0 THEN RNeg(RS.R[i][j]) ELSE RS.R[i][j]]],
     S |-> [i \in 1..2 |-> [j \in 1..2 |->
              IF RSign(RS.S[i][i]) < 0 THEN RNeg(RS.S[i][j]) ELSE RS.S[i][j]]]]

\* lines 84-86: rotation = arctan2(R[1,0], R[0,0]) % (2*pi); shear = S[0,1] / S[0,0]
RotationAndShear(RS) ==
    [rotation |-> ArcTan2(RS.R[2][1], RS.R[1][1]) % TwoPi,
     shear    |-> RDiv(RS.S[1][2], RS.S[1][1])]

\* lines 72-86 of parse_transform_metadata: (rotation, shear)
parse_transform_metadata(at, sg) ==
    RotationAndShear(SignNormalized(qr(AssembleA(at), sg)))

(* A synthetic Transform element: the linear map                           *)
(*      rotation(theta) * [[sx, k*sx], [0, sy]]                            *)
(* written to the attributes in the layout of the comment at lines 72-75,  *)
(*      | a00  a01 |                                                       *)
(*      | a10  a11 |                                                       *)
BuildAttrs(b) ==
    LET c == Cos(b.theta)
        s == Sin(b.theta)
        sx == I2R(b.sx)
        sy == I2R(b.sy)
        ksx == RMul(b.k, sx)
    IN  [A00 |-> RMul(c, sx), A01 |-> RSub(RMul(c, ksx), RMul(s, sy)),
         A10 |-> RMul(s, sx), A11 |-> RAdd(RMul(s, ksx), RMul(c, sy))]

ShearRatios == {<<0, 1>>, <<3, 4>>, <<-3, 4>>}
ScaleFactors == {1, 2, 3}

InTable(y, x) ==
    \E a \in TableAngles :
        /\ RMul(x, Sin(a)) = RMul(y, Cos(a))
        /\ RSign(RAdd(RMul(x, Cos(a)), RMul(y, Sin(a)))) > 0

\* the synthetic maps on which the model's arithmetic is exact: the norm of
\* the first column of the matrix decomposed is rational and its direction
\* is a tabulated angle
Representable(b) ==
    LET at == BuildAttrs(b)
    IN  /\ HasExactRoot(RAdd(RMul(at.A00, at.A00), RMul(at.A01, at.A01)))
        /\ InTable(at.A01, at.A00)

BuiltMaps ==
    { b \in [theta : TableAngles, sx : ScaleFactors, sy : ScaleFactors, k : ShearRatios] :
        Representable(b) }

InitParse ==
    /\ \/ /\ built \in BuiltMaps
          /\ attrs = BuildAttrs(built)
          /\ pstep = "input"
       \/ /\ built = None /\ attrs = None
          /\ pstep = "input_no_transform"
    /\ rawsign = None /\ parsed = None
    /\ OverlayIdle
    /\ MatchIdle
    /\ OthersIdle

\* the image has a Transform element
ParseTransformMetadata(sg) ==
    /\ pstep = "input"
    /\ rawsign' = sg
    /\ parsed' = parse_transform_metadata(attrs, sg)
    /\ pstep' = "parsed"
    /\ UNCHANGED <<built, attrs, gvars, mvars, xvars>>

\* the image has no Transform element (md is None)
ParseNoTransform ==
    /\ pstep = "input_no_transform"
    /\ parsed' = [rotation |-> 0, shear |-> Zero]
    /\ pstep' = "parsed_no_transform"
    /\ UNCHANGED <<built, attrs, rawsign, gvars, mvars, xvars>>

NextParse ==
    \/ \E sg \in {<<1, 1>>, <<1, -1>>, <<-1, 1>>, <<-1, -1>>} : ParseTransformMetadata(sg)
    \/ ParseNoTransform

SpecParse == InitParse /\ [][NextParse]_vars

\* C5 (as claimed): when the Transform attributes hold a linear map built as
\* the rotation by theta times an upper-triangular scale/shear matrix with
\* positive diagonal, the returned rotation is theta modulo 2*pi and the
\* returned shear is the shear the map was built with, whatever the signs of
\* the raw QR factors.
C5_RecoversRotationAndShear ==
    pstep = "parsed" =>
        /\ parsed.rotation = built.theta % TwoPi
        /\ parsed.shear = built.k

-----------------------------------------------------------------------------
(* montage.py / align.py: generate_point_matches.                          *)
(*                                                                         *)
(* The parent loops over the groups of df_pairs (montage: by (stack, z);   *)
(* align: by stack) and over the batches of each group; for every batch it *)
(* opens a pool of N_cores workers and calls pool.map, which hands one     *)
(* task per element of tp_batch to the workers, returns when every task    *)
(* of the batch has finished, and re-raises the first exception a task     *)
(* raised.  A pointMatchClient call may fail (the remote service).         *)

MaxRows  == 3
MaxBatch == 2
MaxCores == 2

Stacks == {1, 2}

\* match_collections: the collection of each stack
match_collections == [s \in Stacks |-> <<"points", s>>]

\* the (stack, z) values a row may carry
RowKinds == {<<1, 1>>, <<1, 2>>, <<2, 1>>}

Rows == DOMAIN df_pairs

\* df_pairs.groupby(['stack', 'z']) in montage.py, df_pairs.groupby('stack')
\* in align.py: the key of a row
GroupKey(r) == IF variant = "montage" THEN <<r.stack, r.z>> ELSE <<r.stack, 0>>

KeyLess(a, b) == a[1] < b[1] \/ (a[1] = b[1] /\ a[2] < b[2])

\* groupby iterates over the keys in sorted order: the 1-based rank of the
\* group of row i
GroupOf(i) ==
    Cardinality({ GroupKey(df_pairs[j]) : j \in
                    { j \in Rows : KeyLess(GroupKey(df_pairs[j]), GroupKey(df_pairs[i])) } }) + 1

\* position of row i within its group (groupby keeps the rows in order)
PosInGroup(i) ==
    Cardinality({ j \in Rows : j < i /\ GroupKey(df_pairs[j]) = GroupKey(df_pairs[i]) })

\* a grouping by the remainder instead of the quotient
BatchIndex_Modulo(i) == PosInGroup(i) % batch_size

\* grouping = np.arange(len(tile_pairs)) // batch_size
BatchIndex(i) == PosInGroup(i) \div batch_size

BatchOf(i) == <<GroupOf(i), BatchIndex(i)>>

Batches == { BatchOf(i) : i \in Rows }

BatchRows(b) == { i \in Rows : BatchOf(i) = b }

\* the batches after b, in the order of the two nested loops
Later(b) == { c \in Batches : KeyLess(b, c) }

HasNext(b) == Later(b) # {}

NextBatch(b) == CHOOSE c \in Later(b) : \A d \in Later(b) : ~KeyLess(d, c)

InFlight == { i \in Rows : task[i] = "inflight" }

\* one element holding every pair of the batch of row i
TilePairsOf_WholeBatch(i) ==
    LET rows == BatchRows(BatchOf(i))
        n    == Cardinality(rows)
        nth  == [k \in 1..n |-> CHOOSE j \in rows : Cardinality({ l \in rows : l < j }) = k - 1]
    IN  [k \in 1..n |-> <<df_pairs[nth[k]].p, df_pairs[nth[k]].q>>]

\* tp_batch = [[tuple(tp)] for tp in batch[['p.id', 'q.id']].values.tolist()]:
\* the element of tp_batch made for row i
TilePairsOf(i) == << <<df_pairs[i].p, df_pairs[i].q>> >>

\* the pointMatchClient call run_point_match_client makes for row i
CallOf(i) ==
    [stack      |-> df_pairs[i].stack,
     collection |-> match_collections[df_pairs[i].stack],
     tile_pairs |-> TilePairsOf(i)]

\* a pool that runs every queued task at once
WorkerTakes_Unbounded(i) == TRUE
\* a worker of the pool is free to take the task of row i: the pool has
\* N_cores workers, each runs one task at a time, tasks are taken in order
WorkerTakes(i) == Cardinality(InFlight) + Cardinality({ j \in Rows : task[j] = "queued" /\ j < i }) + 1 <= N_cores

\* a map that returns as soon as every task has been taken by a worker
MapFinished_AllTaken == \A i \in BatchRows(cur) : task[i] # "queued"

\* a map that raises as soon as one task has failed
MapFinished_OnFirstFailure ==
    \/ \A i \in BatchRows(cur) : task[i] \in {"ok", "failed"}
    \/ \E i \in BatchRows(cur) : task[i] = "failed"

\* pool.map returns (or raises) once every task of the batch has finished
MapFinished == \A i \in BatchRows(cur) : task[i] \in {"ok", "failed"}

InitMatch ==
    /\ variant \in {"montage", "align"}
    /\ \E n \in 0..MaxRows : \E kinds \in [1..n -> RowKinds] :
          df_pairs = [i \in 1..n |->
                        [stack |-> kinds[i][1], z |-> kinds[i][2], p |-> i, q |-> i + 1]]
    /\ batch_size \in 1..MaxBatch
    /\ N_cores \in 1..MaxCores
    /\ pc = "loop"
    /\ cur = <<0, 0>>
    /\ task = [i \in DOMAIN df_pairs |-> "pending"]
    /\ calls = [i \in DOMAIN df_pairs |-> <<>>]
    /\ submitted = [i \in DOMAIN df_pairs |-> 0]
    /\ OverlayIdle
    /\ ParseIdle
    /\ OthersIdle

\* the loops reach the next batch: tp_batch is built and pool.map is called
StartBatch ==
    /\ pc = "loop"
    /\ HasNext(cur)
    /\ cur' = NextBatch(cur)
    /\ task' = [i \in Rows |-> IF BatchOf(i) = cur' THEN "queued" ELSE task[i]]
    /\ submitted' = [i \in Rows |-> IF BatchOf(i) = cur' THEN submitted[i] + 1
                                    ELSE submitted[i]]
    /\ pc' = "map"
    /\ UNCHANGED <<variant, df_pairs, batch_size, N_cores, calls, gvars, pvars, xvars>>

(* A worker runs the task of row i: run_point_match_client calls           *)
(* pointMatchClient with the element of tp_batch as tile_pairs (montage.py *)
(* unpacks it from the pair (tile_pair_batch, sift_options); align.py      *)
(* receives it as the positional argument of its own wrapper).  The        *)
(* workers take the tasks in order, one at a time each, so the task of row *)
(* i can be running only if the queued tasks before it are held by other   *)
(* workers.  A batch has at most 4 * N_cores rows here, for which pool.map *)
(* makes one task per element.                                             *)
TaskCalls(i) ==
    /\ pc = "map"
    /\ task[i] = "queued"
    /\ WorkerTakes(i)
    /\ task' = [task EXCEPT ![i] = "inflight"]
    /\ calls' = [calls EXCEPT ![i] = Append(@, CallOf(i))]
    /\ UNCHANGED <<variant, df_pairs, batch_size, N_cores, pc, cur, submitted, gvars, pvars, xvars>>

\* the pointMatchClient call of row i returns
CallReturns(i) ==
    /\ task[i] = "inflight"
    /\ task' = [task EXCEPT ![i] = "ok"]
    /\ UNCHANGED <<variant, df_pairs, batch_size, N_cores, pc, cur, calls, submitted,
                   gvars, pvars, xvars>>

\* the pointMatchClient call of row i raises
CallFails(i) ==
    /\ task[i] = "inflight"
    /\ task' = [task EXCEPT ![i] = "failed"]
    /\ UNCHANGED <<variant, df_pairs, batch_size, N_cores, pc, cur, calls, submitted,
                   gvars, pvars, xvars>>

\* a map that drops the exceptions of its tasks
MapReturns_Swallow ==
    /\ pc = "map"
    /\ MapFinished
    /\ pc' = "loop"
    /\ UNCHANGED <<variant, df_pairs, batch_size, N_cores, cur, task, calls, submitted,
                   gvars, pvars, xvars>>

\* pool.map returns and the pool is closed: on to the next batch
MapReturns ==
    /\ pc = "map"
    /\ MapFinished
    /\ \A i \in BatchRows(cur) : task[i] # "failed"
    /\ pc' = "loop"
    /\ UNCHANGED <<variant, df_pairs, batch_size, N_cores, cur, task, calls, submitted,
                   gvars, pvars, xvars>>

\* a failure that is dropped after the batch: the loops go on
MapRaises_Continue ==
    /\ pc = "map"
    /\ MapFinished
    /\ \E i \in BatchRows(cur) : task[i] = "failed"
    /\ pc' = "loop"
    /\ UNCHANGED <<variant, df_pairs, batch_size, N_cores, cur, task, calls, submitted,
                   gvars, pvars, xvars>>

\* pool.map re-raises a task's exception, which leaves generate_point_matches
MapRaises ==
    /\ pc = "map"
    /\ MapFinished
    /\ \E i \in BatchRows(cur) : task[i] = "failed"
    /\ pc' = "raised"
    /\ UNCHANGED <<variant, df_pairs, batch_size, N_cores, cur, task, calls, submitted,
                   gvars, pvars, xvars>>

\* both loops are exhausted: generate_point_matches returns
Return ==
    /\ pc = "loop"
    /\ ~HasNext(cur)
    /\ pc' = "done"
    /\ UNCHANGED <<variant, df_pairs, batch_size, N_cores, cur, task, calls, submitted,
                   gvars, pvars, xvars>>

NextMatch ==
    \/ StartBatch
    \/ \E i \in Rows : TaskCalls(i)
    \/ \E i \in Rows : CallReturns(i)
    \/ \E i \in Rows : CallFails(i)
    \/ MapReturns
    \/ MapRaises
    \/ Return

SpecMatch == InitMatch /\ [][NextMatch]_vars

\* every pointMatchClient call eventually returns or raises, and the parent
\* and the workers keep running
SpecMatchFair == SpecMatch /\ WF_vars(NextMatch)

-----------------------------------------------------------------------------
(* Properties of generate_point_matches                                    *)

Finished == pc \in {"done", "raised"}

\* no pointMatchClient call has failed
NoCallFailed == \A i \in Rows : task[i] # "failed"

PairsOfBatch(b) == { <<df_pairs[i].p, df_pairs[i].q>> : i \in BatchRows(b) }

PairsOfCall(c) == { c.tile_pairs[k] : k \in DOMAIN c.tile_pairs }

CallsOfBatch(b) == { <<i, k>> \in Rows \X (1..2) : BatchOf(i) = b /\ k <= Len(calls[i]) }

\* C8: the batches of each group are consecutive, disjoint, of
\* at most batch_size rows each and cover the group; in a run in which no
\* pointMatchClient call fails every row of df_pairs produces exactly one
\* call carrying that row's (p.id, q.id), its stack and the collection
\* match_collections[stack]; in any run no row is submitted more than once.
C8_EveryRowMatchedOnce ==
    /\ \A b \in Batches :
          /\ Cardinality(BatchRows(b)) <= batch_size
          /\ \A i \in BatchRows(b), j \in BatchRows(b), m \in Rows :
                (GroupOf(m) = GroupOf(i) /\ i < m /\ m < j) => m \in BatchRows(b)
    /\ \A i \in Rows :
          /\ Cardinality({ b \in Batches : i \in BatchRows(b) }) = 1
          /\ submitted[i] <= 1
          /\ Len(calls[i]) <= 1
    /\ (Finished /\ NoCallFailed) =>
          \A i \in Rows :
              /\ Len(calls[i]) = 1
              /\ calls[i][1].tile_pairs = << <<df_pairs[i].p, df_pairs[i].q>> >>
              /\ calls[i][1].stack = df_pairs[i].stack
              /\ calls[i][1].collection = match_collections[df_pairs[i].stack]

C8_Witness ==
    /\ pc = "done"
    /\ Len(df_pairs) = MaxRows
    /\ Cardinality(Batches) >= 2
    /\ \E b \in Batches : Cardinality(BatchRows(b)) >= 2

\* C9 (as claimed): a batch of up to batch_size tile pairs is matched by a
\* single pointMatchClient call whose tile_pairs argument contains all
\* pairs of that batch.
C9_OneCallPerBatch ==
    \A b \in Batches :
        /\ Cardinality(CallsOfBatch(b)) <= 1
        /\ \A ik \in CallsOfBatch(b) :
              PairsOfCall(calls[ik[1]][ik[2]]) = PairsOfBatch(b)

\* C9 (amended): every pointMatchClient call carries exactly one tile pair,
\* that of the row its task was made for; a batch is handed to the pool as
\* one task per tile pair, each task makes at most one call, and a worker
\* is blocked while its call is in flight, so at most N_cores calls are in
\* flight.
C9_OneCallPerTilePair ==
    /\ \A i \in Rows :
          /\ Len(calls[i]) <= 1
          /\ task[i] \in {"inflight", "ok", "failed"} => Len(calls[i]) = 1
          /\ \A k \in 1..Len(calls[i]) :
                calls[i][k].tile_pairs = << <<df_pairs[i].p, df_pairs[i].q>> >>
    /\ Cardinality(InFlight) <= N_cores

C9_Witness ==
    \E i \in Rows, j \in Rows :
        /\ i # j /\ BatchOf(i) = BatchOf(j)
        /\ Len(calls[i]) = 1 /\ Len(calls[j]) = 1
        /\ task[i] = "inflight" /\ task[j] = "inflight"

\* C10 (as claimed): there is no dependency between batches: a call of one
\* batch does not wait for the calls of another batch, so with a call of
\* one batch in flight and a worker free, the call for a pending tile pair
\* of another batch can be issued.
C10_NoDependencyBetweenBatches ==
    \A i \in Rows, j \in Rows :
        ( /\ task[i] = "inflight"
          /\ task[j] = "pending"
          /\ BatchOf(i) # BatchOf(j)
          /\ Cardinality(InFlight) < N_cores )
        => ENABLED TaskCalls(j)

\* C10 (amended): the batches are processed one after the other, in the
\* order of the loops: the tasks of a batch are handed to the pool only
\* after every task of every earlier batch has finished, so calls of
\* different batches are never in flight together; only the calls of one
\* batch are unordered among themselves.
C10_BatchesInSequence ==
    \A i \in Rows, j \in Rows :
        (KeyLess(BatchOf(i), BatchOf(j)) /\ task[j] # "pending")
        => task[i] \in {"ok", "failed"}

C10_Witness ==
    \E i \in Rows, j \in Rows :
        /\ KeyLess(BatchOf(i), BatchOf(j))
        /\ task[i] = "ok" /\ task[j] = "inflight"

SomeCallFailed == \E i \in Rows : task[i] = "failed"

\* C11 (as claimed): when one pointMatchClient call fails, the calls for all
\* other tile pairs of df_pairs are still issued and run to completion.
C11_AllOtherCallsIssued ==
    (Finished /\ SomeCallFailed) =>
        \A i \in Rows : Len(calls[i]) = 1 /\ task[i] \in {"ok", "failed"}

\* C11 (amended): a failed call does not affect the other calls of its own
\* batch, which are all issued and run to completion before
\* generate_point_matches raises; every earlier batch has completed
\* without failure, and the tile pairs of every later batch are never
\* submitted: no call is issued for them.
C11_FailureConfinedToBatch ==
    (Finished /\ SomeCallFailed) =>
        /\ pc = "raised"
        /\ \E i \in BatchRows(cur) : task[i] = "failed"
        /\ \A i \in Rows :
              /\ BatchOf(i) = cur =>
                    Len(calls[i]) = 1 /\ task[i] \in {"ok", "failed"}
              /\ KeyLess(BatchOf(i), cur) =>
                    Len(calls[i]) = 1 /\ task[i] = "ok"
              /\ KeyLess(cur, BatchOf(i)) =>
                    Len(calls[i]) = 0 /\ task[i] = "pending" /\ submitted[i] = 0

C11_Witness ==
    /\ pc = "raised"
    /\ \E i \in Rows, j \in Rows, m \in Rows :
          /\ i < j /\ BatchOf(i) = cur /\ BatchOf(j) = cur
          /\ task[i] = "failed" /\ task[j] = "ok"
          /\ KeyLess(cur, BatchOf(m)) /\ task[m] = "pending"

\* C12: whenever a pointMatchClient call raises, generate_point_matches
\* terminates by raising to its caller: it never goes on to another batch
\* and never returns normally after a failed call, and (every call
\* eventually finishing) it does raise.
C12_FailureRaisesToCaller ==
    /\ [](SomeCallFailed => pc \in {"map", "raised"})
    /\ (SomeCallFailed ~> pc = "raised")

C12_Witness ==
    /\ pc = "raised"
    /\ SomeCallFailed
    /\ \E i \in Rows : task[i] = "pending"

Min2(a, b) == IF a < b THEN a ELSE b

\* C24: at every moment the pointMatchClient calls in flight belong to one
\* batch of one group and are at most min(N_cores, batch_size); a call of a
\* batch has started only if every call of every earlier batch has returned.
C24_InFlightWithinOneBatch ==
    /\ \A i \in InFlight, j \in InFlight : BatchOf(i) = BatchOf(j)
    /\ Cardinality(InFlight) <= Min2(N_cores, batch_size)
    /\ \A i \in Rows, j \in Rows :
          (KeyLess(BatchOf(i), BatchOf(j)) /\ Len(calls[j]) > 0) => task[i] = "ok"

\* two calls of a later batch in flight together
C24_Witness ==
    /\ N_cores = 2 /\ batch_size = 2
    /\ Cardinality(InFlight) = 2
    /\ \E i \in Rows : task[i] = "ok" /\ \A j \in InFlight : KeyLess(BatchOf(i), BatchOf(j))

\* the rows of the batches after the one being processed
LaterRows == { i \in Rows : KeyLess(cur, BatchOf(i)) }

\* C25: once a pointMatchClient call has failed, no step submits or calls
\* anything for a later batch (of the same section, a later section or a
\* later stack), and every call that has completed successfully stays so:
\* the matches stored by earlier batches are not undone.
C25_NothingAfterFailure ==
    [][SomeCallFailed =>
          /\ cur' = cur
          /\ \A i \in LaterRows :
                task[i] = "pending" /\ task'[i] = "pending" /\ calls'[i] = <<>> /\ submitted'[i] = 0
          /\ \A i \in Rows : task[i] = "ok" => (task'[i] = "ok" /\ calls'[i] = calls[i])]_vars

\* a failure in the second batch, with a completed earlier batch and a later
\* stack that is never reached
C25_Witness ==
    /\ pc = "raised"
    /\ \E i \in Rows, j \in Rows, m \in Rows :
          /\ KeyLess(BatchOf(i), cur) /\ task[i] = "ok"
          /\ BatchOf(j) = cur /\ task[j] = "failed"
          /\ KeyLess(cur, BatchOf(m)) /\ df_pairs[m].stack # df_pairs[j].stack
          /\ task[m] = "pending" /\ calls[m] = <<>>

-----------------------------------------------------------------------------
(* plotting.py / render_image.py: render_bbox_image.                       *)
(*                                                                         *)
(* renderapi's get_bb_image returns the image, or a RenderError object     *)
(* when the request fails (it does not raise).                             *)

BoxOrigins == {0, 10}
BoxSizes   == {1, 2, 3}
Widths     == {512, 1024}
Sections   == {1, 2}

BBoxes ==
    { <<x, y, x + w, y + h>> : x \in BoxOrigins, y \in BoxOrigins, w \in BoxSizes, h \in BoxSizes }

\* np.round(r, decimals=6) of a positive number: to the nearest multiple of
\* 1e-6, ties to even
Round6(r) ==
    LET q   == r[1] * 1000000
        fl  == q \div r[2]
        rm2 == 2 * (q % r[2])
        up  == rm2 > r[2] \/ (rm2 = r[2] /\ fl % 2 = 1)
    IN  Rat(IF up THEN fl + 1 ELSE fl, 1000000)

\* the scale of the request: plotting.py line 76 rounds it, render_image.py
\* line 67 does not
ScaleOf(m, bbox, width) ==
    IF m = "plotting" THEN Round6(Rat(width, bbox[3] - bbox[1]))
    ELSE Rat(width, bbox[3] - bbox[1])

\* the arguments of the get_bb_image call
RequestOf(m, a) ==
    [z |-> a.z, x |-> a.bbox[1], y |-> a.bbox[2],
     width |-> a.bbox[3] - a.bbox[1], height |-> a.bbox[4] - a.bbox[2],
     scale |-> ScaleOf(m, a.bbox, a.width)]

\* what the function returns when the request failed: plotting.py returns
\* the RenderError object it received (line 97), render_image.py falls off
\* the end of the if branch and returns None
ReturnedOnFailure(m, req) ==
    IF m = "plotting" THEN [kind |-> "RenderError", of |-> <<req>>]
    ELSE [kind |-> "None", of |-> <<>>]

InitRender ==
    /\ bmodule \in {"plotting", "render_image"}
    /\ bargs \in [z : Sections, bbox : BBoxes, width : Widths]
    /\ requests = <<>> /\ printed = <<>>
    /\ bret = None
    /\ bstep = "input"
    /\ IdleExceptRender

\* render_bbox_image(stack, z, bbox, width, render); ok: whether the
\* get_bb_image request succeeds
RenderBboxImage(ok) ==
    /\ bstep = "input"
    /\ requests' = <<RequestOf(bmodule, bargs)>>
    /\ printed' = IF ok THEN <<>> ELSE <<RequestOf(bmodule, bargs)>>
    /\ bret' = IF ok THEN [kind |-> "image", of |-> <<RequestOf(bmodule, bargs)>>]
                     ELSE ReturnedOnFailure(bmodule, RequestOf(bmodule, bargs))
    /\ bstep' = "returned"
    /\ UNCHANGED <<bmodule, bargs, ExceptRender>>

NextRender == \E ok \in BOOLEAN : RenderBboxImage(ok)

SpecRender == InitRender /\ [][NextRender]_vars

\* C13 (as claimed): when the bounding-box image request fails,
\* render_bbox_image retries it with smaller sub-requests that partition the
\* bounding box and returns the image stitched from them, instead of
\* returning without an image.
C13_FailedRequestIsRetriedInParts ==
    (bstep = "returned" /\ Len(printed) > 0) =>
        /\ Len(requests) > 1
        /\ \A k \in 2..Len(requests) :
              /\ requests[k].width <= requests[1].width
              /\ requests[k].height <= requests[1].height
        /\ bret.kind = "image"

-----------------------------------------------------------------------------
(* render_transforms.py: scale_stack, rotate_stack, translate_stack,       *)
(* transform_stack; render_pandas.py: create_stack_DataFrame,              *)
(* upload_stack_DataFrame.                                                 *)
(*                                                                         *)
(* A tile specification is a record [tileId, z, minint, maxint, layout,    *)
(* tforms]; a transform (renderapi's AffineModel) is its 3x3 matrix M.     *)

MaxTiles == 2

StackNames == {"stack_a", "stack_b", "stack_c"}

\* (minint, maxint) of a tile: render-ws stores them as doubles
IntensityRanges == { << <<0, 1>>, <<65535, 1>> >>, << <<3, 2>>, <<511, 2>> >> }

\* the transform lists a tile may already carry
TformLists == { <<>>, << translate(Identity3, I2R(1), I2R(2)) >> }

\* the parameters of renderapi's Layout(...), which are its fields
LayoutParameters ==
    {"sectionId", "scopeId", "cameraId", "imageRow", "imageCol",
     "stageX", "stageY", "rotation", "pixelsize"}

\* the layouts of the tiles this repository makes (None: not given); the
\* values are written as text, nothing is computed from them here
Layouts ==
    { \* parse_metadata, importo.py lines 56-71: no scope, camera or rotation
      [sectionId |-> "S001", scopeId |-> None, cameraId |-> None,
       imageRow |-> "0", imageCol |-> "1", stageX |-> "100.0", stageY |-> "300.0",
       rotation |-> None, pixelsize |-> "5.0"],
      \* Layout(...) of the scripts, e.g. test_render.py lines 25-33
      [sectionId |-> "1", scopeId |-> "longclaw_scope", cameraId |-> "ghost_cam",
       imageRow |-> "0", imageCol |-> "0", stageX |-> "100.0", stageY |-> "300.0",
       rotation |-> "0.0", pixelsize |-> "3.0"] }

\* the tile specifications a tile k with layout ly may be; width, height
\* and the image pyramid (which holds imageUrl) are those of the tile
TileSpecs(k, ly) ==
    { [tileId |-> k, z |-> 1, width |-> 2048, height |-> 1024, imagePyramid |-> <<"imageUrl", k>>,
       minint |-> ir[1], maxint |-> ir[2], layout |-> ly, tforms |-> tf] :
        ir \in IntensityRanges, tf \in TformLists }

StackBounds ==
    { [minX |-> 0, minY |-> 0, maxX |-> 4, maxY |-> 2],
      [minX |-> -2, minY |-> 1, maxX |-> 5, maxY |-> 3] }

\* renderapi's AffineModel(M00, M01, M10, M11, B0, B1)
AffineRender(M00, M01, M10, M11, B0, B1) ==
    << <<M00, M01, B0>>, <<M10, M11, B1>>, <<Zero, Zero, One>> >>

\* int(x): truncation towards zero
IntOf(r) == IF r[1] < 0 THEN -((-r[1]) \div r[2]) ELSE r[1] \div r[2]

\* the key under which Layout.to_dict() writes a field: scopeId and
\* cameraId are written as 'temca' and 'camera'
LayoutKeyOf(f) ==
    CASE f = "scopeId" -> "temca"
      [] f = "cameraId" -> "camera"
      [] OTHER -> f

LayoutFieldOf(k) == CHOOSE f \in LayoutParameters : LayoutKeyOf(f) = k

\* Layout.to_dict(): the fields that are not None, under their keys
LayoutToDict(ly) ==
    [k \in { LayoutKeyOf(f) : f \in { g \in LayoutParameters : ly[g] # None } } |->
        ly[LayoutFieldOf(k)]]

\* the keys of ts.to_dict() that create_stack_DataFrame keeps or adds
\* (lines 39-49), other than 'layout'
TileColumns == {"tileId", "z", "width", "height", "minint", "maxint", "imagePyramid", "tforms"}

\* create_stack_DataFrame: the row made from a tile specification; the
\* stack name is added and the layout dictionary is expanded into columns
\* of its own (lines 56-61)
RowOf(ts, stack) ==
    [c \in TileColumns \cup {"stack"} \cup DOMAIN LayoutToDict(ts.layout) |->
        IF c = "stack" THEN stack
        ELSE IF c \in TileColumns THEN ts[c]
        ELSE LayoutToDict(ts.layout)[c]]

create_stack_DataFrame(tiles, stack) == [i \in DOMAIN tiles |-> RowOf(tiles[i], stack)]

\* Layout(**kwargs): a parameter takes the keyword of its own name, any
\* other keyword ('stack', 'temca', 'camera') is ignored
LayoutOf(kwargs) ==
    [f \in LayoutParameters |-> IF f \in DOMAIN kwargs THEN kwargs[f] ELSE None]

\* upload_stack_DataFrame lines 135-138: TileSpec(**tile.to_dict()) with
\* minint, maxint converted by int(); TileSpec takes the keywords of its
\* own parameters and makes its layout of the others
TileSpecOf(row) ==
    [tileId |-> row.tileId, z |-> row.z, width |-> row.width, height |-> row.height,
     imagePyramid |-> row.imagePyramid,
     minint |-> I2R(IntOf(row.minint)), maxint |-> I2R(IntOf(row.maxint)),
     layout |-> LayoutOf([c \in DOMAIN row \ TileColumns |-> row[c]]),
     tforms |-> row.tforms]

\* the three requests of upload_stack_DataFrame(df, name = stack)
upload_stack_DataFrame(df, stack) ==
    << [op |-> "create_stack", stack |-> stack, tiles |-> <<>>],
       [op |-> "import_tilespecs", stack |-> stack,
        tiles |-> [i \in DOMAIN df |-> TileSpecOf(df[i])]],
       [op |-> "set_stack_state", stack |-> stack, tiles |-> <<>>] >>

\* df_stack.at[i, 'tforms'] += new, for every row
AddTforms(df, new) == [i \in DOMAIN df |-> [df[i] EXCEPT !.tforms = @ \o new]]

\* an output stack that is always the input stack
StackOutOf_AlwaysIn(sin, sout) == sin

\* stack_out = stack_out if stack_out is not None else stack_in
StackOutOf(sin, sout) == IF sout # None THEN sout ELSE sin

\* the requests that read the input stack
ReadTiles(stack) == [op |-> "get_tile_specs_from_stack", stack |-> stack, tiles |-> <<>>]
ReadBounds(stack) == [op |-> "get_stack_bounds", stack |-> stack, tiles |-> <<>>]

\* scale_stack lines 48-65: T1, S, T2
ScaleTforms(b, sx, sy) ==
    LET x0 == Rat(b.minX + b.maxX, 2)
        y0 == Rat(b.minY + b.maxY, 2)
    IN  << AffineRender(One, Zero, Zero, One, RNeg(x0), RNeg(y0)),
           AffineRender(sx, Zero, Zero, sy, Zero, Zero),
           AffineRender(One, Zero, Zero, One,
                        RMul(RAbs(RSub(I2R(b.minX), x0)), sx),
                        RMul(RAbs(RSub(I2R(b.minY), y0)), sy)) >>

\* the forms of the argument T of transform_stack
TransformMatrices ==
    { Identity3,
      AffineRender(I2R(2), Zero, Zero, I2R(2), Zero, Zero),
      translate(rotate(Identity3, 644), I2R(3), I2R(-1)) }

TransformArgs ==
    [form : {"ndarray", "AffineMPL", "AffineRender", "list", "None", "ndarray_2x3"},
     M : TransformMatrices]

\* a test that lets the default T=None through
AcceptedForms_NoneToo == {"ndarray", "AffineMPL", "AffineRender", "None"}
\* lines 173-180: an AffineMPL, an array of shape (3, 3) or an AffineRender
AcceptedForms == {"ndarray", "AffineMPL", "AffineRender"}

\* transform_stack lines 172-180: the AffineRender object A made from T
\* (A = AffineRender() is the identity; the AffineRender branch is "pass")
TransformOf(Targ) ==
    IF Targ.form = "AffineMPL" THEN Targ.M
    ELSE IF Targ.form = "ndarray" THEN Targ.M
    ELSE AffineRender(One, Zero, Zero, One, Zero, Zero)

StackOuts == {None} \cup StackNames

InitStack ==
    /\ stack_in \in {"stack_a"}
    /\ \E n \in 0..MaxTiles, ly \in Layouts :
          tiles_in \in [1..n -> UNION { TileSpecs(k, ly) : k \in 1..n }]
    /\ \A i \in DOMAIN tiles_in : tiles_in[i].tileId = i
    /\ bounds_in \in StackBounds
    /\ scall = None
    /\ remote = <<>>
    /\ sstep = "input"
    /\ IdleExceptStack

\* scale_stack is entered
ScaleStack(sout, sx, sy) ==
    /\ sstep = "input"
    /\ scall' = [fn |-> "scale_stack", stack_out |-> sout, sx |-> sx, sy |-> sy]
    /\ sstep' = "running"
    /\ UNCHANGED <<stack_in, tiles_in, bounds_in, remote, ExceptStack>>

\* rotate_stack is entered
RotateStack(sout, r) ==
    /\ sstep = "input"
    /\ scall' = [fn |-> "rotate_stack", stack_out |-> sout, r |-> r]
    /\ sstep' = "running"
    /\ UNCHANGED <<stack_in, tiles_in, bounds_in, remote, ExceptStack>>

\* translate_stack is entered
TranslateStack(sout, tx, ty) ==
    /\ sstep = "input"
    /\ scall' = [fn |-> "translate_stack", stack_out |-> sout, tx |-> tx, ty |-> ty]
    /\ sstep' = "running"
    /\ UNCHANGED <<stack_in, tiles_in, bounds_in, remote, ExceptStack>>

\* transform_stack is entered
TransformStack(sout, Targ) ==
    /\ sstep = "input"
    /\ scall' = [fn |-> "transform_stack", stack_out |-> sout, T |-> Targ]
    /\ sstep' = "running"
    /\ UNCHANGED <<stack_in, tiles_in, bounds_in, remote, ExceptStack>>

\* the transforms the function called appends to every tile
NewTforms(call) ==
    CASE call.fn = "scale_stack" -> ScaleTforms(bounds_in, call.sx, call.sy)
      [] call.fn = "rotate_stack" -> <<rotate(AffineMPL, call.r)>>
      [] call.fn = "translate_stack" -> <<translate(AffineMPL, call.tx, call.ty)>>
      [] call.fn = "transform_stack" -> <<TransformOf(call.T)>>

\* the requests the function called makes when none of them fails, in the
\* order of the code: the reads of stack_in, then upload_stack_DataFrame
RequestsOf(call) ==
    (IF call.fn = "scale_stack" THEN <<ReadTiles(stack_in), ReadBounds(stack_in)>>
     ELSE <<ReadTiles(stack_in)>>) \o
    upload_stack_DataFrame(
        AddTforms(create_stack_DataFrame(tiles_in, stack_in), NewTforms(call)),
        StackOutOf(stack_in, call.stack_out))

\* transform_stack lines 172-180, reached when create_stack_DataFrame has
\* returned: T has no accepted form
Rejects ==
    /\ scall.fn = "transform_stack"
    /\ Len(remote) = 1
    /\ scall.T.form \notin AcceptedForms

\* ValueError("Improper form for transform.")
TransformStackRaises ==
    /\ sstep = "running"
    /\ Rejects
    /\ sstep' = "raised"
    /\ UNCHANGED <<stack_in, tiles_in, bounds_in, scall, remote, ExceptStack>>

\* where the function is after its request has been answered: the error of
\* a failed request is not caught, the last request ends the function
StepAfter(ok, made, planned) ==
    IF ~ok THEN "failed" ELSE IF made = planned THEN "returned" ELSE "running"

\* the next request of the function is made and answered (ok) or refused
StackRequest(ok) ==
    /\ sstep = "running"
    /\ ~Rejects
    /\ remote' = Append(remote, RequestsOf(scall)[Len(remote) + 1])
    /\ sstep' = StepAfter(ok, Len(remote) + 1, Len(RequestsOf(scall)))
    /\ UNCHANGED <<stack_in, tiles_in, bounds_in, scall, ExceptStack>>

\* the scale factors passed to scale_stack (nonzero floats)
ScaleFactorsX == {I2R(1), I2R(2), I2R(-2)}
ScaleFactorsY == {I2R(1), I2R(3), Rat(-1, 2)}

NextStack ==
    \/ \E sout \in StackOuts, sx \in ScaleFactorsX, sy \in ScaleFactorsY :
          ScaleStack(sout, sx, sy)
    \/ \E sout \in StackOuts, r \in {0, 644} : RotateStack(sout, r)
    \/ \E sout \in StackOuts, tx \in {I2R(0), I2R(5)}, ty \in {I2R(0), I2R(-7)} :
          TranslateStack(sout, tx, ty)
    \/ \E sout \in StackOuts, Targ \in TransformArgs : TransformStack(sout, Targ)
    \/ TransformStackRaises
    \/ \E ok \in BOOLEAN : StackRequest(ok)

SpecStack == InitStack /\ [][NextStack]_vars

\* the tile specifications sent by import_tilespecs
UploadedTiles ==
    remote[CHOOSE k \in DOMAIN remote : remote[k].op = "import_tilespecs"].tiles

IsWrite(r) == r.op \in {"create_stack", "import_tilespecs", "set_stack_state"}

Target == IF scall.stack_out # None THEN scall.stack_out ELSE stack_in

\* C14 (as claimed): transform_stack appends to every tile of the stack a
\* transform with the same matrix as T, for each accepted form of T (3x3
\* array, AffineMPL object, AffineRender object).
C14_AppendedTransformIsT ==
    (sstep = "returned" /\ scall.fn = "transform_stack") =>
        \A i \in DOMAIN UploadedTiles :
            /\ Len(UploadedTiles[i].tforms) = Len(tiles_in[i].tforms) + 1
            /\ UploadedTiles[i].tforms[Len(UploadedTiles[i].tforms)] = scall.T.M

\* C15: the result is uploaded to stack_out when it is given and to
\* stack_in when it is not: at every point of the call the stack created,
\* imported into or set COMPLETE is that one and no other, stack_in is
\* otherwise only read, and a call that returns has made exactly the three
\* writes, in that order.
C15_UploadGoesToStackOut ==
    (sstep \in {"running", "returned", "raised", "failed"}) =>
        /\ \A k \in DOMAIN remote :
              IF IsWrite(remote[k]) THEN remote[k].stack = Target
              ELSE remote[k].stack = stack_in
        /\ sstep = "returned" =>
              [k \in 1..Len(SelectSeq(remote, IsWrite)) |-> SelectSeq(remote, IsWrite)[k].op]
                = <<"create_stack", "import_tilespecs", "set_stack_state">>

C15_Witness ==
    /\ sstep = "returned"
    /\ scall.stack_out \notin {None, stack_in}
    /\ Len(tiles_in) = MaxTiles
    /\ \E k \in DOMAIN remote : remote[k].op = "import_tilespecs" /\ remote[k].stack # stack_in

\* how many transforms each function appends
AppendedCount == IF scall.fn = "scale_stack" THEN 3 ELSE 1

TformsExtended(old, new) ==
    /\ Len(new.tforms) = Len(old.tforms) + AppendedCount
    /\ SubSeq(new.tforms, 1, Len(old.tforms)) = old.tforms

\* C16: the uploaded stack has as many tiles as stack_in, each tile keeps
\* its identifier and every other field read from stack_in, and its
\* transform list is the input tile's list followed by the appended
\* transform(s).
C16_OnlyTransformsAppended ==
    sstep = "returned" =>
        /\ Len(UploadedTiles) = Len(tiles_in)
        /\ \A i \in DOMAIN tiles_in :
              /\ UploadedTiles[i] = [tiles_in[i] EXCEPT !.tforms = UploadedTiles[i].tforms]
              /\ TformsExtended(tiles_in[i], UploadedTiles[i])

-----------------------------------------------------------------------------
(* trakem2.py: create_trakem2_project.                                     *)

MaxLayerTiles == 2

LayerZs == {1, 2}

\* the z_values argument: None, or a list of z values
ZValueArgs ==
    { [given |-> FALSE, z_values |-> <<>>] } \cup
    { [given |-> TRUE, z_values |-> zs] : zs \in { <<>>, <<1>>, <<2>>, <<1, 2>> } }

\* the parameters of the functions create_trakem2_project calls
ParametersOf(fn) ==
    CASE fn = "create_layer_xml" -> {"stack", "z", "render"}
      [] fn = "create_layer_set" -> {"width", "height"}
      [] fn = "create_stack_xml" -> {"stack", "z_values", "render"}

\* a Python call binds its keyword arguments only to parameters of the
\* function called; otherwise it raises TypeError
CallBinds(fn, keywords) == keywords \subseteq ParametersOf(fn)

\* create_layer_set(width, height): the t2_layer_set element
create_layer_set(width, height) ==
    [element |-> "t2_layer_set", width |-> width, height |-> height]

\* create_layer_xml(stack, z, render): the t2_layer element with one
\* t2_patch per tile of get_tile_specs_from_z
create_layer_xml(layers, z) ==
    [element |-> "t2_layer", z |-> z,
     patches |-> [i \in DOMAIN layers[z] |-> [element |-> "t2_patch", title |-> layers[z][i]]]]

\* create_stack_xml(stack, z_values, render): the layers, in order
create_stack_xml(layers, zs) == [i \in DOMAIN zs |-> create_layer_xml(layers, zs[i])]

InitTrakem ==
    /\ kargs \in ZValueArgs
    /\ \E n1 \in 0..MaxLayerTiles, n2 \in 0..MaxLayerTiles :
          klayers = [z \in LayerZs |-> [i \in 1..(IF z = 1 THEN n1 ELSE n2) |-> 10 * z + i]]
    /\ kbounds \in StackBounds
    /\ kremote = <<>>
    /\ kfile = <<>>
    /\ kstep = "input"
    /\ IdleExceptTrakem

\* create_trakem2_project up to line 106: the headers are built, the stack
\* bounds are fetched, and  create_layer_xml(width=width, height=height)
\* raises TypeError because create_layer_xml has no such parameters; the
\* file is never opened
CreateTrakem2ProjectRaises ==
    /\ kstep = "input"
    /\ ~CallBinds("create_layer_xml", {"width", "height"})
    /\ kremote' = <<[op |-> "get_stack_bounds"]>>
    /\ kfile' = <<>>
    /\ kstep' = "raised"
    /\ UNCHANGED <<kargs, klayers, kbounds, ExceptTrakem>>

NextTrakem == CreateTrakem2ProjectRaises

SpecTrakem == InitTrakem /\ [][NextTrakem]_vars

\* the z values of the project: the argument, or those of the stack
ProjectZs == IF kargs.given THEN kargs.z_values ELSE <<1, 2>>

\* C17 (as claimed): create_trakem2_project completes without raising and
\* writes to xml_filepath, in this order, the DTD header, the project
\* header, the layer set sized maxX - minX by maxY - minY, one t2_layer
\* per z value each with one t2_patch per tile of that z, and the footer.
C17_ProjectFileWritten ==
    kstep # "input" =>
        /\ kstep = "returned"
        /\ Len(kfile) = 5
        /\ kfile[1] = "header"
        /\ kfile[2] = "project_header"
        /\ kfile[3] = create_layer_set(kbounds.maxX - kbounds.minX,
                                       kbounds.maxY - kbounds.minY)
        /\ kfile[4] = create_stack_xml(klayers, ProjectZs)
        /\ kfile[5] = "footer"


-----------------------------------------------------------------------------
(* montage.py: get_tile_pairs_4_montage.  The stack's z values come from   *)
(* the server (get_z_values_for_stack); each iteration of the loop calls   *)
(* tilePairClient for one z and appends the normalised pairs to df_pairs.  *)
(* A row is [p, q, z, stack, index]; a column a frame does not have is NaN *)
(* after pd.concat.                                                         *)

MaxZ == 3
MaxPairs == 2

NaN == "NaN"

\* the z values a stack can have, ascending as the server lists them
RECURSIVE Ascending(_)
Ascending(zs) == Len(zs) < 2 \/ (zs[1] < zs[2] /\ Ascending(Tail(zs)))

ZValueLists ==
    {zs \in UNION {[1..n -> 1..MaxZ] : n \in 0..MaxZ} : Ascending(zs)}

\* the 'neighborPairs' the tile pair client finds for one section
NeighborPairs(n) == [k \in 1..n |-> [p |-> k, q |-> k + 1]]

NeighborPairLists == {NeighborPairs(n) : n \in 0..MaxPairs}

\* the keyword arguments passed on in tilePairClient_kwargs
KwargSets == {{}, {"zNeighborDistance"}, {"minz"}, {"stack", "excludeCornerNeighbors"}}

\* get_tile_pairs_4_montage(stack, render, **tilePairClient_kwargs): a
\* keyword that names one of the function's own parameters is a TypeError
\* when the function is called
OwnParameters == {"stack", "render"}

\* tilePairClient(stack=stack, minz=z, maxz=z, render=render, **kwargs):
\* a keyword given twice is a TypeError before the call is made
TilePairClientNamed == {"stack", "minz", "maxz", "render"}

TilePairArgs_FromFirst(stack, zs, z, kwargs) == [stack |-> stack, minz |-> zs[1], maxz |-> z, kwargs |-> kwargs]
TilePairArgs(stack, zs, z, kwargs) == [stack |-> stack, minz |-> z, maxz |-> z, kwargs |-> kwargs]

\* pd.json_normalize(neighborPairs) followed by df['z'] = z
NormalizedWithZ(pairs, z) ==
    [k \in 1..Len(pairs) |->
        [p |-> pairs[k].p, q |-> pairs[k].q, z |-> z, stack |-> NaN, index |-> k - 1]]

\* df_pairs['stack'] = stack
SetStackColumn(rows, stack) ==
    [k \in 1..Len(rows) |-> [rows[k] EXCEPT !.stack = stack]]

\* df_pairs.reset_index(drop=True)
reset_index(rows) ==
    [k \in 1..Len(rows) |-> [rows[k] EXCEPT !.index = k - 1]]

InitPairs ==
    /\ IdleExceptPairs
    /\ tz_values \in ZValueLists
    /\ tpairs \in [1..MaxZ -> NeighborPairLists]
    /\ targs \in [stack : StackNames, kwargs : KwargSets]
    /\ ti = 0
    /\ trequests = <<>>
    /\ trows = <<>>
    /\ tret = <<>>
    /\ tstep = "loop"

\* the arguments cannot be bound to the parameters: TypeError on entry,
\* before the z values are read
CallKeywordRepeated ==
    /\ tstep = "loop"
    /\ ti = 0
    /\ targs.kwargs \cap OwnParameters # {}
    /\ tstep' = "raised"
    /\ UNCHANGED <<tz_values, tpairs, targs, ti, trequests, trows, tret, ExceptPairs>>

\* lines 86-87: the request for the z values of the stack is refused; the
\* exception propagates before the loop
ZValuesRequestFails ==
    /\ tstep = "loop"
    /\ ti = 0
    /\ targs.kwargs \cap OwnParameters = {}
    /\ tstep' = "raised"
    /\ UNCHANGED <<tz_values, tpairs, targs, ti, trequests, trows, tret, ExceptPairs>>

\* one iteration of the loop whose request succeeds
TilePairIteration ==
    /\ tstep = "loop"
    /\ targs.kwargs \cap OwnParameters = {}
    /\ ti < Len(tz_values)
    /\ targs.kwargs \cap TilePairClientNamed = {}
    /\ trequests' = Append(trequests, TilePairArgs(targs.stack, tz_values, tz_values[ti + 1], targs.kwargs))
    /\ trows' = trows \o NormalizedWithZ(tpairs[tz_values[ti + 1]], tz_values[ti + 1])
    /\ ti' = ti + 1
    /\ UNCHANGED <<tz_values, tpairs, targs, tret, tstep, ExceptPairs>>

\* one iteration whose request is made and fails: the exception propagates
TilePairIterationFails ==
    /\ tstep = "loop"
    /\ targs.kwargs \cap OwnParameters = {}
    /\ ti < Len(tz_values)
    /\ targs.kwargs \cap TilePairClientNamed = {}
    /\ trequests' = Append(trequests, TilePairArgs(targs.stack, tz_values, tz_values[ti + 1], targs.kwargs))
    /\ tstep' = "raised"
    /\ UNCHANGED <<tz_values, tpairs, targs, ti, trows, tret, ExceptPairs>>

\* a keyword of tilePairClient_kwargs repeats one the call names: TypeError
TilePairKeywordRepeated ==
    /\ tstep = "loop"
    /\ targs.kwargs \cap OwnParameters = {}
    /\ ti < Len(tz_values)
    /\ targs.kwargs \cap TilePairClientNamed # {}
    /\ tstep' = "raised"
    /\ UNCHANGED <<tz_values, tpairs, targs, ti, trequests, trows, tret, ExceptPairs>>

\* after the loop: the stack column is set and the index reset
ReturnPairs ==
    /\ tstep = "loop"
    /\ targs.kwargs \cap OwnParameters = {}
    /\ ti = Len(tz_values)
    /\ tret' = reset_index(SetStackColumn(trows, targs.stack))
    /\ tstep' = "returned"
    /\ UNCHANGED <<tz_values, tpairs, targs, ti, trequests, trows, ExceptPairs>>

NextPairs ==
    \/ CallKeywordRepeated
    \/ ZValuesRequestFails
    \/ TilePairIteration
    \/ TilePairIterationFails
    \/ TilePairKeywordRepeated
    \/ ReturnPairs

SpecPairs == InitPairs /\ [][NextPairs]_vars

\* the rows the requests made so far found, in request order
RECURSIVE RowsOfRequests(_)
RowsOfRequests(n) ==
    IF n = 0 THEN <<>>
    ELSE RowsOfRequests(n - 1) \o
         [k \in 1..Len(tpairs[trequests[n].minz]) |->
             [p |-> tpairs[trequests[n].minz][k].p,
              q |-> tpairs[trequests[n].minz][k].q,
              z |-> trequests[n].minz]]

\* C18: get_tile_pairs_4_montage issues its requests in the order of the
\* stack's z values, each for the given stack with minz = maxz = z; when it
\* returns it has made exactly one request per z, and the returned table is
\* the rows the requests found, in request order, each with the z of its
\* request, the given stack name and index 0..n-1.
C18_OneRequestPerSection ==
    /\ Len(trequests) <= Len(tz_values)
    /\ \A i \in 1..Len(trequests) :
          /\ trequests[i].stack = targs.stack
          /\ trequests[i].minz = tz_values[i]
          /\ trequests[i].maxz = tz_values[i]
    /\ tstep = "returned" =>
          /\ Len(trequests) = Len(tz_values)
          /\ Len(tret) = Len(RowsOfRequests(Len(trequests)))
          /\ \A k \in 1..Len(tret) :
                /\ tret[k].p = RowsOfRequests(Len(trequests))[k].p
                /\ tret[k].q = RowsOfRequests(Len(trequests))[k].q
                /\ tret[k].z = RowsOfRequests(Len(trequests))[k].z
                /\ tret[k].stack = targs.stack
                /\ tret[k].index = k - 1

\* a table returned from two sections that both have pairs
C18_Witness ==
    /\ tstep = "returned"
    /\ Len(trequests) >= 2
    /\ Len(tret) >= 3
    /\ tret[1].z # tret[Len(tret)].z
    /\ trows[Len(trows)].index # Len(trows) - 1


-----------------------------------------------------------------------------
(* The remote requests of the wrappers.  A render session carries host,    *)
(* owner and project; a renderapi call given render=render is sent to the  *)
(* session's host under its owner and project.  delete_match_collection    *)
(* (align.py) and clear_image_cache (plotting.py) build their URL          *)
(* themselves and send it with requests.delete.                            *)

SonicHost == "https://sonic.tnw.tudelft.nl"

SessionHosts == {SonicHost, "http://localhost", "https://render.example.org"}
SessionOwners == {"rlane", "demo"}
SessionProjects == {"iCAT_a", "iCAT_b"}
MatchCollections == {"mc_a", "mc_b", "mc_c"}

Sessions == [host : SessionHosts, owner : SessionOwners, project : SessionProjects]

\* the wrappers called, with the argument that names their target
WrapperCalls ==
    [fn : {"delete_match_collection"}, arg : MatchCollections]
    \cup [fn : {"clear_image_cache"}, arg : {None}]
    \cup [fn : {"get_tile_pairs_4_montage", "render_bbox_image"}, arg : StackNames]

\* does the signature of the wrapper have a render parameter
TakesSession(fn) == fn # "clear_image_cache"

\* a renderapi call with render=render: host, owner and project of the session
RenderapiRequest(render, path) ==
    [host |-> render.host, owner |-> render.owner, project |-> render.project, path |-> path]

InitSession ==
    /\ IdleExceptSession
    /\ wsession \in Sessions
    /\ wcall \in WrapperCalls
    /\ wzvalues \in ZValueLists
    /\ wrequests = <<>>
    /\ wstep = "input"

\* align.py 157-161
delete_match_collection ==
    /\ wstep = "input"
    /\ wcall.fn = "delete_match_collection"
    /\ wrequests' = Append(wrequests,
          [host |-> SonicHost, owner |-> wsession.owner, project |-> None,
           path |-> <<"matchCollection", wcall.arg>>])
    /\ wstep' = "returned"
    /\ UNCHANGED <<wsession, wcall, wzvalues, ExceptSession>>

\* plotting.py 38-41
clear_image_cache ==
    /\ wstep = "input"
    /\ wcall.fn = "clear_image_cache"
    /\ wrequests' = Append(wrequests,
          [host |-> SonicHost, owner |-> None, project |-> None,
           path |-> <<"imageProcessorCache", "allEntries">>])
    /\ wstep' = "returned"
    /\ UNCHANGED <<wsession, wcall, wzvalues, ExceptSession>>

\* where get_tile_pairs_4_montage is after a request: an error of the
\* request is not caught
WrapperStepAfter(ok) == IF ok THEN "loop" ELSE "raised"

\* montage.py 86-87: get_z_values_for_stack(stack=stack, render=render)
GetZValuesForStack(ok) ==
    /\ wstep = "input"
    /\ wcall.fn = "get_tile_pairs_4_montage"
    /\ wrequests' = Append(wrequests, RenderapiRequest(wsession, <<"stack", wcall.arg, "zValues">>))
    /\ wstep' = WrapperStepAfter(ok)
    /\ UNCHANGED <<wsession, wcall, wzvalues, ExceptSession>>

\* montage.py 88-95: tilePairClient(stack=stack, minz=z, maxz=z,
\* render=render, ...) for the next z of the stack
TilePairClientFor(ok) ==
    /\ wstep = "loop"
    /\ wcall.fn = "get_tile_pairs_4_montage"
    /\ Len(wrequests) - 1 < Len(wzvalues)
    /\ wrequests' = Append(wrequests,
          RenderapiRequest(wsession, <<"stack", wcall.arg, "tilePairs", wzvalues[Len(wrequests)]>>))
    /\ wstep' = WrapperStepAfter(ok)
    /\ UNCHANGED <<wsession, wcall, wzvalues, ExceptSession>>

\* montage.py 101-103: the loop is over and the table is returned
TilePairsReturned ==
    /\ wstep = "loop"
    /\ wcall.fn = "get_tile_pairs_4_montage"
    /\ Len(wrequests) - 1 = Len(wzvalues)
    /\ wstep' = "returned"
    /\ UNCHANGED <<wsession, wcall, wzvalues, wrequests, ExceptSession>>

\* plotting.py 79-82: get_bb_image(stack=stack, ..., render=render)
GetBbImage ==
    /\ wstep = "input"
    /\ wcall.fn = "render_bbox_image"
    /\ wrequests' = Append(wrequests, RenderapiRequest(wsession, <<"stack", wcall.arg, "box">>))
    /\ wstep' = "returned"
    /\ UNCHANGED <<wsession, wcall, wzvalues, ExceptSession>>

NextSession ==
    \/ delete_match_collection
    \/ clear_image_cache
    \/ \E ok \in BOOLEAN : GetZValuesForStack(ok)
    \/ \E ok \in BOOLEAN : TilePairClientFor(ok)
    \/ TilePairsReturned
    \/ GetBbImage

SpecSession == InitSession /\ [][NextSession]_vars

\* C19: every wrapper that issues a remote request takes a session, and
\* each request goes to the host of that session, under its owner and its
\* project where the request names one.
C19_RequestsScopedBySession ==
    \A i \in 1..Len(wrequests) :
        /\ TakesSession(wcall.fn)
        /\ wrequests[i].host = wsession.host
        /\ wrequests[i].owner # None => wrequests[i].owner = wsession.owner
        /\ wrequests[i].project # None => wrequests[i].project = wsession.project


-----------------------------------------------------------------------------
(* correlate.py: bboxes_overlap.  A box is <<minX, minY, maxX, maxY>>.     *)

MaxCoord == 2

BoundingBoxes ==
    {b \in [1..4 -> 0..MaxCoord] : b[1] <= b[3] /\ b[2] <= b[4]}

\* lines 28-29 (Python indices 0..3 are 1..4 here)
bboxes_overlap(b1, b2) ==
    ((b1[3] >= b2[1]) /\ (b1[1] <= b2[3])) /\ ((b1[4] >= b2[2]) /\ (b1[2] <= b2[4]))

InitOverlap ==
    /\ IdleExceptOverlap
    /\ bbox_1 \in BoundingBoxes
    /\ bbox_2 \in BoundingBoxes
    /\ overlap = None
    /\ ostep = "input"

BboxesOverlap ==
    /\ ostep = "input"
    /\ overlap' = bboxes_overlap(bbox_1, bbox_2)
    /\ ostep' = "returned"
    /\ UNCHANGED <<bbox_1, bbox_2, ExceptOverlap>>

NextOverlap == BboxesOverlap

SpecOverlap == InitOverlap /\ [][NextOverlap]_vars

\* 1-D overlap as the comment at line 27 states it
Overlap1D(min1, max1, min2, max2) == max1 > min2 /\ min1 < max2

\* C20: bboxes_overlap returns True exactly when the projections of the two
\* boxes overlap on the x axis and on the y axis, two intervals overlapping
\* iff box1_max > box2_min and box1_min < box2_max; boxes that coincide
\* return True.
C20_TrueIffProjectionsOverlap ==
    ostep = "returned" =>
        /\ overlap = (/\ Overlap1D(bbox_1[1], bbox_1[3], bbox_2[1], bbox_2[3])
                      /\ Overlap1D(bbox_1[2], bbox_1[4], bbox_2[2], bbox_2[4]))
        /\ bbox_1 = bbox_2 => overlap = TRUE


-----------------------------------------------------------------------------
(* overlay.py: parse_overlay_report.  The report gives the grid shape, the *)
(* SEM pixel size and field of view (hence Nx, Ny) and the spot            *)
(* coordinates in the SEM reference frame.  np.array of integer literals   *)
(* is an integer array and np.zeros_like keeps that type, so an assignment *)
(* into coords_EM truncates; with float literals nothing is truncated.     *)

GridSizes == {2, 4}
ImageSizes == {1024, 2048, 4096}
LiteralKinds == {"int", "float"}
FileOrders == {"report", "scan"}

\* the centre of the k-th of n cells of an image N wide, origin at the centre
SpotCentre(k, n, N) == ((2 * k - 1) * N) \div (2 * n) - N \div 2

\* the spot coordinates: "report" is sorted ascending y, x; "scan" is the
\* order of the docstring (top row first)
SpotCoords(n, Nx, Ny, order) ==
    [i \in 1..(n * n) |->
        <<SpotCentre(((i - 1) % n) + 1, n, Nx),
          SpotCentre(IF order = "report" THEN ((i - 1) \div n) + 1 ELSE n - ((i - 1) \div n), n, Ny)>>]

\* assignment into an array of the type of coords
AsDtype(r, literals) == IF literals = "int" THEN I2R(IntOf(r)) ELSE r

RMaxOf(rs) == CHOOSE m \in {rs[i] : i \in DOMAIN rs} : \A i \in DOMAIN rs : ~RLess(m, rs[i])
RMinOf(rs) == CHOOSE m \in {rs[i] : i \in DOMAIN rs} : \A i \in DOMAIN rs : ~RLess(rs[i], m)

\* lines 315-316: (c - c.min()) / (c - c.min()).max() * N
ToImageWidth(cs, N, literals) ==
    [i \in DOMAIN cs |->
        AsDtype(RMul(RDiv(RSub(cs[i], RMinOf(cs)), RSub(RMaxOf(cs), RMinOf(cs))), I2R(N)), literals)]

\* lines 321-323: scale * (c - c.max()/2) + c.max()/2 with scale = (n - 1) / n
ShrinkAboutCentre(cs, n, literals) ==
    [i \in DOMAIN cs |->
        AsDtype(RAdd(RMul(Rat(n - 1, n), RSub(cs[i], RDiv(RMaxOf(cs), I2R(2)))),
                     RDiv(RMaxOf(cs), I2R(2))), literals)]

ColumnOf(points, c) == [i \in DOMAIN points |-> I2R(points[i][c])]

ToPixelColumn(points, c, n, N, literals) ==
    ShrinkAboutCentre(ToImageWidth(ColumnOf(points, c), N, literals), n, literals)

parse_overlay_report(report, coords) ==
    [i \in DOMAIN coords |->
        <<ToPixelColumn(coords, 1, report.grid, report.Nx, report.literals)[i],
          ToPixelColumn(coords, 2, report.grid, report.Ny, report.literals)[i]>>]

InitReport ==
    /\ IdleExceptReport
    /\ rreport \in [grid : GridSizes, Nx : ImageSizes, Ny : ImageSizes,
                    literals : LiteralKinds, order : FileOrders]
    /\ rcoords = SpotCoords(rreport.grid, rreport.Nx, rreport.Ny, rreport.order)
    /\ rret = <<>>
    /\ rstep = "input"

ParseOverlayReport ==
    /\ rstep = "input"
    /\ rret' = parse_overlay_report(rreport, rcoords)
    /\ rstep' = "returned"
    /\ UNCHANGED <<rreport, rcoords, ExceptReport>>

NextReport == ParseOverlayReport

SpecReport == InitReport /\ [][NextReport]_vars

\* the pixel coordinate the docstring lists at the position of an SEM
\* reference coordinate, in the typical case
DocPixelX(x) == x + 2048
DocPixelY(y) == 2048 - y

TypicalCase == rreport.grid = 4 /\ rreport.Nx = 4096 /\ rreport.Ny = 4096

\* C21: in the typical case (4 x 4 grid, 4096 x 4096 image) each SEM
\* reference coordinate is returned as the pixel coordinate listed at the
\* same position of the docstring: (-1536, 1536) as (512, 512), ...,
\* (1536, -1536) as (3584, 3584).
C21_TypicalCaseAsDocumented ==
    (rstep = "returned" /\ TypicalCase) =>
        \A i \in DOMAIN rcoords :
            /\ rret[i][1] = I2R(DocPixelX(rcoords[i][1]))
            /\ rret[i][2] = I2R(DocPixelY(rcoords[i][2]))

-----------------------------------------------------------------------------
(* scale_stack: where the appended transforms take the stack's bounds.     *)

\* an affine transform of the render service applied to a point <<x, y>>
ApplyAffine(M, p) ==
    <<RAdd(RAdd(RMul(M[1][1], p[1]), RMul(M[1][2], p[2])), M[1][3]),
      RAdd(RAdd(RMul(M[2][1], p[1]), RMul(M[2][2], p[2])), M[2][3])>>

\* a transform list applied to a point, first transform first
RECURSIVE ApplyTforms(_, _)
ApplyTforms(tforms, p) ==
    IF tforms = <<>> THEN p ELSE ApplyTforms(Tail(tforms), ApplyAffine(Head(tforms), p))

\* the last three transforms of an uploaded tile
AppendedTo(tile) == SubSeq(tile.tforms, Len(tile.tforms) - 2, Len(tile.tforms))

MinCornerIn == <<I2R(bounds_in.minX), I2R(bounds_in.minY)>>
MaxCornerIn == <<I2R(bounds_in.maxX), I2R(bounds_in.maxY)>>

RMin2(a, b) == IF RLess(b, a) THEN b ELSE a

\* the bounding box of the image of the input bounds under the appended
\* transforms (they are axis-aligned, so two opposite corners determine it)
ImageMinCorner(tile) ==
    <<RMin2(ApplyTforms(AppendedTo(tile), MinCornerIn)[1], ApplyTforms(AppendedTo(tile), MaxCornerIn)[1]),
      RMin2(ApplyTforms(AppendedTo(tile), MinCornerIn)[2], ApplyTforms(AppendedTo(tile), MaxCornerIn)[2])>>

ImageExtent(tile) ==
    <<RAbs(RSub(ApplyTforms(AppendedTo(tile), MaxCornerIn)[1], ApplyTforms(AppendedTo(tile), MinCornerIn)[1])),
      RAbs(RSub(ApplyTforms(AppendedTo(tile), MaxCornerIn)[2], ApplyTforms(AppendedTo(tile), MinCornerIn)[2]))>>

\* C22: for every nonzero sx, sy the three transforms scale_stack appends to
\* a tile map the input bounding box onto a box whose minimum corner is
\* (0, 0) and whose width and height are |sx| and |sy| times the input's.
C22_ScaledBoxStartsAtOrigin ==
    (sstep = "returned" /\ scall.fn = "scale_stack") =>
        \A i \in DOMAIN UploadedTiles :
            /\ ImageMinCorner(UploadedTiles[i]) = <<Zero, Zero>>
            /\ ImageExtent(UploadedTiles[i]) =
                  <<RMul(RAbs(scall.sx), I2R(bounds_in.maxX - bounds_in.minX)),
                    RMul(RAbs(scall.sy), I2R(bounds_in.maxY - bounds_in.minY))>>

-----------------------------------------------------------------------------
(* montage.py: generate_point_matches, lines 203-217: the SIFT options.    *)
(* For every row of a batch a new SiftPointMatchOptions is constructed     *)
(* from the __dict__ of the object the name sift_options is bound to, the  *)
(* name is rebound to the new object and its firstCanvasPosition is set;   *)
(* pool.map hands the k-th element of zip(tp_batch, sift_options_batch) to *)
(* the k-th task; the parent waits in pool.map while the N_cores workers   *)
(* make the calls of the batch, and goes on (or raises) when every task    *)
(* has finished.  Objects are identified by a number; 0 is the caller's.   *)

MaxSiftRows == 3

RelativePositions == {"LEFT", "TOP"}

\* the caller's options: one tile-pair independent field stands for all
GivenOptions == [SIFTsteps : {3, 5}, firstCanvasPosition : {None, "LEFT"}]

\* a copy whose canvas position is left as it was in the object copied
Construct_CopyOnly(heap, from, id, pos) == [k \in DOMAIN heap \cup {id} |-> IF k = id THEN heap[from] ELSE heap[k]]
\* SiftPointMatchOptions(**from.__dict__) stored as object id, then
\* .firstCanvasPosition = pos
Construct(heap, from, id, pos) == [k \in DOMAIN heap \cup {id} |-> IF k = id THEN [heap[from] EXCEPT !.firstCanvasPosition = pos] ELSE heap[k]]

\* batches of one group: rows (b-1)*batch_size+1 .. b*batch_size
SiftBatchOf(i) == (i - 1) \div fbatch_size

\* is row i the last of its batch
EndsBatch(i) == i = Len(fpairs) \/ SiftBatchOf(i + 1) # SiftBatchOf(i)

InitSift ==
    /\ IdleExceptSift
    /\ fpairs \in UNION {[1..n -> RelativePositions] : n \in 0..MaxSiftRows}
    /\ fbatch_size \in 1..MaxBatch
    /\ fgiven \in GivenOptions
    /\ fheap = [k \in {0} |-> fgiven]
    /\ flocal = 0
    /\ foptions = <<>>
    /\ fnext = 1
    /\ fcalls = <<>>
    /\ fcores \in 1..MaxCores
    /\ ftask = <<>>
    /\ fstep = "loop"

\* lines 208-213: one iteration of the loop that fills sift_options_batch
NewSiftOptions ==
    /\ fstep = "loop"
    /\ fnext <= Len(fpairs)
    /\ Len(foptions) < fnext - SiftBatchOf(fnext) * fbatch_size
    /\ fheap' = Construct(fheap, flocal, fnext, fpairs[fnext])
    /\ flocal' = fnext
    /\ foptions' = Append(foptions, fnext)
    /\ UNCHANGED <<fpairs, fbatch_size, fgiven, fnext, fcalls, fcores, ftask, fstep, ExceptSift>>

\* the rows of the batch for which options have been made
RowsOfOptions == [k \in 1..Len(foptions) |-> SiftBatchOf(fnext) * fbatch_size + k]

\* the calls pool.map makes for zip(tp_batch, sift_options_batch); the
\* options reach the worker as a copy of the object's fields
CallsOfMap ==
    [k \in 1..Len(foptions) |->
        [row |-> RowsOfOptions[k], instance |-> foptions[k], sift_options |-> fheap[foptions[k]]]]

BatchFilled ==
    /\ fnext <= Len(fpairs)
    /\ Len(foptions) = fnext - SiftBatchOf(fnext) * fbatch_size
    /\ EndsBatch(fnext)

\* a row of the batch other than its last has its options: on to the next row
NextRowOfBatch ==
    /\ fstep = "loop"
    /\ fnext <= Len(fpairs)
    /\ Len(foptions) = fnext - SiftBatchOf(fnext) * fbatch_size
    /\ ~EndsBatch(fnext)
    /\ fnext' = fnext + 1
    /\ UNCHANGED <<fpairs, fbatch_size, fgiven, fheap, flocal, foptions, fcalls, fcores, ftask, fstep, ExceptSift>>

\* lines 216-217: the pool is opened and pool.map is called with the batch
SiftMapCalled ==
    /\ fstep = "loop"
    /\ BatchFilled
    /\ ftask' = [k \in 1..Len(foptions) |-> "queued"]
    /\ fstep' = "map"
    /\ UNCHANGED <<fpairs, fbatch_size, fgiven, fheap, flocal, foptions, fnext, fcalls, fcores, ExceptSift>>

\* the tasks of the batch whose call has been made and not yet answered
SiftInFlight == { k \in DOMAIN ftask : ftask[k] = "inflight" }

\* a worker of the pool is free to take the k-th task: the pool has
\* N_cores workers, each runs one task at a time, tasks are taken in order
SiftWorkerTakes(k) == Cardinality(SiftInFlight) + Cardinality({ j \in DOMAIN ftask : ftask[j] = "queued" /\ j < k }) + 1 <= fcores

\* a worker makes the pointMatchClient call of the k-th element of the
\* batch (run_point_match_client, lines 106-114)
SiftTaskCalls(k) ==
    /\ fstep = "map"
    /\ ftask[k] = "queued"
    /\ SiftWorkerTakes(k)
    /\ ftask' = [ftask EXCEPT ![k] = "inflight"]
    /\ fcalls' = Append(fcalls, CallsOfMap[k])
    /\ UNCHANGED <<fpairs, fbatch_size, fgiven, fheap, flocal, foptions, fnext, fcores, fstep, ExceptSift>>

\* the call of the k-th element is answered
SiftCallReturns(k) ==
    /\ fstep = "map"
    /\ ftask[k] = "inflight"
    /\ ftask' = [ftask EXCEPT ![k] = "ok"]
    /\ UNCHANGED <<fpairs, fbatch_size, fgiven, fheap, flocal, foptions, fnext, fcalls, fcores, fstep, ExceptSift>>

\* the call of the k-th element is refused: its task raises
SiftCallFails(k) ==
    /\ fstep = "map"
    /\ ftask[k] = "inflight"
    /\ ftask' = [ftask EXCEPT ![k] = "failed"]
    /\ UNCHANGED <<fpairs, fbatch_size, fgiven, fheap, flocal, foptions, fnext, fcalls, fcores, fstep, ExceptSift>>

\* every task of the batch has finished
SiftMapFinished == \A k \in DOMAIN ftask : ftask[k] \in {"ok", "failed"}

\* pool.map returns and the pool is closed: on to the next batch
SiftMapReturns ==
    /\ fstep = "map"
    /\ SiftMapFinished
    /\ \A k \in DOMAIN ftask : ftask[k] # "failed"
    /\ foptions' = <<>>
    /\ ftask' = <<>>
    /\ fnext' = fnext + 1
    /\ fstep' = "loop"
    /\ UNCHANGED <<fpairs, fbatch_size, fgiven, fheap, flocal, fcalls, fcores, ExceptSift>>

\* pool.map re-raises the exception of a failed task, which leaves
\* generate_point_matches
SiftMapRaises ==
    /\ fstep = "map"
    /\ SiftMapFinished
    /\ \E k \in DOMAIN ftask : ftask[k] = "failed"
    /\ fstep' = "raised"
    /\ UNCHANGED <<fpairs, fbatch_size, fgiven, fheap, flocal, foptions, fnext, fcalls, fcores, ftask, ExceptSift>>

SiftReturn ==
    /\ fstep = "loop"
    /\ fnext > Len(fpairs)
    /\ fstep' = "returned"
    /\ UNCHANGED <<fpairs, fbatch_size, fgiven, fheap, flocal, foptions, fnext, fcalls, fcores, ftask, ExceptSift>>

NextSift ==
    \/ NewSiftOptions
    \/ NextRowOfBatch
    \/ SiftMapCalled
    \/ \E k \in DOMAIN ftask : SiftTaskCalls(k)
    \/ \E k \in DOMAIN ftask : SiftCallReturns(k)
    \/ \E k \in DOMAIN ftask : SiftCallFails(k)
    \/ SiftMapReturns
    \/ SiftMapRaises
    \/ SiftReturn

SpecSift == InitSift /\ [][NextSift]_vars

\* C23: every pointMatchClient call gets an options instance of its own,
\* not the caller's and not that of another call; its firstCanvasPosition
\* is the p.relativePosition of the tile pair of the call and its other
\* fields are those of the options the caller passed in; the caller's
\* object is never modified.
C23_OwnOptionsPerCall ==
    /\ fheap[0] = fgiven
    /\ \A c \in DOMAIN fcalls :
          /\ fcalls[c].instance # 0
          /\ fcalls[c].sift_options.firstCanvasPosition = fpairs[fcalls[c].row]
          /\ fcalls[c].sift_options.SIFTsteps = fgiven.SIFTsteps
          /\ \A d \in DOMAIN fcalls : d # c => fcalls[d].instance # fcalls[c].instance

\* a batch of two calls with different canvas positions, the call of the
\* second row made first, and a later batch
C23_Witness ==
    /\ fstep = "returned"
    /\ Len(fcalls) = 3
    /\ fbatch_size = 2
    /\ fcalls[1].row = 2 /\ fcalls[2].row = 1
    /\ fcalls[1].sift_options.firstCanvasPosition # fcalls[2].sift_options.firstCanvasPosition
    /\ fcalls[3].sift_options.firstCanvasPosition # fgiven.firstCanvasPosition

-----------------------------------------------------------------------------
(* The stack lifecycle driven by upload_stack_DataFrame (render_pandas.py  *)
(* 107-161) and import_trakem2_project (trakem2.py 120-176): build every   *)
(* tile specification, then create_stack, import_tilespecs and             *)
(* set_stack_state.  Building a tile specification raises for a row or     *)
(* patch that cannot be converted (int(), float(), the unpacking of the    *)
(* transform); each request may raise.  Nothing is caught.                 *)

MaxSpecs == 2

LifecycleFns == {"upload_stack_DataFrame", "import_trakem2_project"}

\* import_trakem2_project(stack, ...) always has the name; upload_stack_DataFrame
\* has name=None by default
LifecycleArgs ==
    {a \in [fn : LifecycleFns, name : StackOuts] :
        a.fn = "import_trakem2_project" => a.name # None}

LifecycleTiles ==
    UNION {[1..n -> [stack : {"stack_a", "stack_b"}, valid : BOOLEAN]] : n \in 0..MaxSpecs}

InitLifecycle ==
    /\ IdleExceptLifecycle
    /\ uargs \in LifecycleArgs
    /\ utiles \in LifecycleTiles
    /\ ustack = None
    /\ ubuilt = 0
    /\ urequests = <<>>
    /\ ustep = "start"

\* render_pandas.py 124-128: stack = name, or the 'stack' of the first row
SetStackName ==
    /\ ustep = "start"
    /\ uargs.name # None \/ Len(utiles) > 0
    /\ ustack' = IF uargs.name # None THEN uargs.name ELSE utiles[1].stack
    /\ ustep' = "build"
    /\ UNCHANGED <<uargs, utiles, ubuilt, urequests, ExceptLifecycle>>

\* df.iloc[0] of an empty DataFrame: IndexError
SetStackNameRaises ==
    /\ ustep = "start"
    /\ uargs.name = None /\ Len(utiles) = 0
    /\ ustep' = "raised"
    /\ UNCHANGED <<uargs, utiles, ustack, ubuilt, urequests, ExceptLifecycle>>

\* one iteration of the loop over the rows (patches)
BuildTileSpec ==
    /\ ustep = "build"
    /\ ubuilt < Len(utiles)
    /\ utiles[ubuilt + 1].valid
    /\ ubuilt' = ubuilt + 1
    /\ UNCHANGED <<uargs, utiles, ustack, urequests, ustep, ExceptLifecycle>>

BuildTileSpecRaises ==
    /\ ustep = "build"
    /\ ubuilt < Len(utiles)
    /\ ~utiles[ubuilt + 1].valid
    /\ ustep' = "raised"
    /\ UNCHANGED <<uargs, utiles, ustack, ubuilt, urequests, ExceptLifecycle>>

LifecycleRequest(op, state, ok) ==
    [op |-> op, stack |-> ustack, tiles |-> IF op = "import_tilespecs" THEN ubuilt ELSE 0,
     state |-> state, ok |-> ok]

\* where the function goes after a request: an exception leaves it
AfterRequest_Ignore(ok, next) == next
AfterRequest(ok, next) == IF ok THEN next ELSE "raised"

CreateStack(ok) ==
    /\ ustep = "build"
    /\ ubuilt = Len(utiles)
    /\ urequests' = Append(urequests, LifecycleRequest("create_stack", None, ok))
    /\ ustep' = AfterRequest(ok, "import")
    /\ UNCHANGED <<uargs, utiles, ustack, ubuilt, ExceptLifecycle>>

ImportTilespecs(ok) ==
    /\ ustep = "import"
    /\ urequests' = Append(urequests, LifecycleRequest("import_tilespecs", None, ok))
    /\ ustep' = AfterRequest(ok, "close")
    /\ UNCHANGED <<uargs, utiles, ustack, ubuilt, ExceptLifecycle>>

SetStackState(ok) ==
    /\ ustep = "close"
    /\ urequests' = Append(urequests, LifecycleRequest("set_stack_state", "COMPLETE", ok))
    /\ ustep' = AfterRequest(ok, "returned")
    /\ UNCHANGED <<uargs, utiles, ustack, ubuilt, ExceptLifecycle>>

NextLifecycle ==
    \/ SetStackName
    \/ SetStackNameRaises
    \/ BuildTileSpec
    \/ BuildTileSpecRaises
    \/ \E ok \in BOOLEAN : CreateStack(ok)
    \/ \E ok \in BOOLEAN : ImportTilespecs(ok)
    \/ \E ok \in BOOLEAN : SetStackState(ok)

SpecLifecycle == InitLifecycle /\ [][NextLifecycle]_vars

LifecycleOrder == <<"create_stack", "import_tilespecs", "set_stack_state">>

\* C26: the requests are create_stack, import_tilespecs, set_stack_state in
\* this order, each at most once and all for the same stack, and none is
\* made before every tile specification is built; set_stack_state
\* ('COMPLETE') is called only after create_stack and import_tilespecs have
\* returned, never after one of them or the building of a tile
\* specification has raised.
C26_LifecycleInOrder ==
    /\ Len(urequests) <= 3
    /\ \A k \in DOMAIN urequests :
          /\ urequests[k].op = LifecycleOrder[k]
          /\ urequests[k].stack = ustack
          /\ ustack = (IF uargs.name # None THEN uargs.name ELSE utiles[1].stack)
          /\ ubuilt = Len(utiles)
          /\ \A j \in 1..(k - 1) : urequests[j].ok
    /\ \A k \in DOMAIN urequests :
          urequests[k].op = "import_tilespecs" => urequests[k].tiles = Len(utiles)
    /\ \A k \in DOMAIN urequests :
          urequests[k].op = "set_stack_state" => urequests[k].state = "COMPLETE"
    /\ (\E i \in DOMAIN utiles : ~utiles[i].valid) => urequests = <<>>

\* import_tilespecs raises after the stack was created: the stack is not closed
C26_Witness ==
    /\ ustep = "raised"
    /\ Len(utiles) = MaxSpecs
    /\ Len(urequests) = 2
    /\ urequests[1].ok /\ ~urequests[2].ok

-----------------------------------------------------------------------------
(* transform_stack: a T of no accepted form.                               *)

\* C27: when T is none of the accepted forms (the default None, a list, an
\* array whose shape is not (3, 3)) transform_stack never returns and at no
\* point of the call is a create_stack, import_tilespecs or set_stack_state
\* request made, for stack_in or for stack_out; once the tiles of stack_in
\* have been read it raises ValueError.
C27_ImproperTransformLeavesStoreUnchanged ==
    (sstep \in {"running", "returned", "raised", "failed"} /\ scall.fn = "transform_stack"
        /\ scall.T.form \in {"None", "list", "ndarray_2x3"}) =>
        /\ sstep # "returned"
        /\ \A k \in DOMAIN remote : ~IsWrite(remote[k])
        /\ Len(remote) <= 1
        /\ sstep = "failed" => remote = <<ReadTiles(stack_in)>>

\* the default T=None on a stack that has tiles, with an output stack named
C27_Witness ==
    /\ sstep = "raised"
    /\ scall.T.form = "None"
    /\ scall.stack_out # None
    /\ Len(tiles_in) > 0
    /\ remote = <<ReadTiles(stack_in)>>

-----------------------------------------------------------------------------
(* plotting.py 135-170 / render_image.py 123-158: render_stack_images.     *)
(* The z values and the bounds of the stack are read, then                 *)
(* render_bbox_image is called for every z with the bounds of the stack;   *)
(* what it returns, image or not, is stored under z.                       *)

StackBBoxes == {<<0, 0, 2, 1>>, <<10, 0, 13, 3>>}

InitImages ==
    /\ IdleExceptImages
    /\ imodule \in {"plotting", "render_image"}
    /\ iargs \in [width : Widths]
    /\ iz_values \in ZValueLists
    /\ ibbox \in StackBBoxes
    /\ ii = 0
    /\ irequests = <<>>
    /\ images = <<>>
    /\ istep = "start"

\* get_z_values_for_stack and get_stack_bounds; an exception of either
\* leaves the function
ReadStack(ok) ==
    /\ istep = "start"
    /\ istep' = IF ok THEN "loop" ELSE "raised"
    /\ UNCHANGED <<imodule, iargs, iz_values, ibbox, ii, irequests, images, ExceptImages>>

\* the arguments of the render_bbox_image call for the k-th z value
BboxArgsOf(k) == [z |-> iz_values[k], bbox |-> ibbox, width |-> iargs.width]

\* what render_bbox_image returns
BboxImageOf(ok, k) ==
    IF ok THEN [kind |-> "image", of |-> <<RequestOf(imodule, BboxArgsOf(k))>>]
    ELSE ReturnedOnFailure(imodule, RequestOf(imodule, BboxArgsOf(k)))

\* a loop that is left at the first request that fails
LoopIndexAfter_StopOnFailure(ok, i, n) == IF ok THEN i + 1 ELSE n
\* the loop goes on to the next z value whatever was returned
LoopIndexAfter(ok, i, n) == i + 1

\* one iteration: images[z] = render_bbox_image(...); ok: whether the
\* get_bb_image request succeeds
RenderSection(ok) ==
    /\ istep = "loop"
    /\ ii < Len(iz_values)
    /\ irequests' = Append(irequests, RequestOf(imodule, BboxArgsOf(ii + 1)))
    /\ images' = (iz_values[ii + 1] :> BboxImageOf(ok, ii + 1)) @@ images
    /\ ii' = LoopIndexAfter(ok, ii, Len(iz_values))
    /\ UNCHANGED <<imodule, iargs, iz_values, ibbox, istep, ExceptImages>>

ReturnImages ==
    /\ istep = "loop"
    /\ ii = Len(iz_values)
    /\ istep' = "returned"
    /\ UNCHANGED <<imodule, iargs, iz_values, ibbox, ii, irequests, images, ExceptImages>>

NextImages ==
    \/ \E ok \in BOOLEAN : ReadStack(ok)
    \/ \E ok \in BOOLEAN : RenderSection(ok)
    \/ ReturnImages

SpecImages == InitImages /\ [][NextImages]_vars

ZSetOf(zs) == {zs[k] : k \in DOMAIN zs}

\* C28: render_stack_images issues one bounding-box request per z value of
\* the stack, in order, each for the bounds of the whole stack, and returns
\* a mapping with exactly one entry per z value; a request that fails does
\* not raise and the requests for the remaining z values are still issued.
C28_OneRequestAndEntryPerSection ==
    /\ Len(irequests) <= Len(iz_values)
    /\ \A k \in DOMAIN irequests :
          /\ irequests[k].z = iz_values[k]
          /\ irequests[k].x = ibbox[1] /\ irequests[k].y = ibbox[2]
          /\ irequests[k].width = ibbox[3] - ibbox[1]
          /\ irequests[k].height = ibbox[4] - ibbox[2]
    /\ istep = "raised" => irequests = <<>>
    /\ istep = "returned" =>
          /\ Len(irequests) = Len(iz_values)
          /\ DOMAIN images = ZSetOf(iz_values)
          /\ Cardinality(DOMAIN images) = Len(iz_values)

\* the request of the first section failed, that of a later one succeeded
C28_Witness ==
    /\ istep = "returned"
    /\ Len(iz_values) >= 2
    /\ images[iz_values[1]].kind # "image"
    /\ images[iz_values[Len(iz_values)]].kind = "image"

-----------------------------------------------------------------------------
(* trakem2.py: create_patch_xml (21-51) and the parsing of the transform   *)
(* attribute in import_trakem2_project (131-137).                          *)
(*                                                                         *)
(* A coefficient is a decimal [m, e] standing for m * 10^e, with m not     *)
(* divisible by 10 (and [0, 0] for zero).  Text is a sequence of           *)
(* one-character strings.                                                  *)

MaxTforms == 2

RECURSIVE Pow10(_)
Pow10(n) == IF n = 0 THEN 1 ELSE 10 * Pow10(n - 1)

RECURSIVE DecNorm(_, _)
DecNorm(m, e) ==
    IF m = 0 THEN [m |-> 0, e |-> 0]
    ELSE IF m % 10 = 0 THEN DecNorm(m \div 10, e + 1)
    ELSE [m |-> m, e |-> e]

Dec(m, e) == DecNorm(m, e)

DecMul(a, b) == DecNorm(a.m * b.m, a.e + b.e)

DecAligned(a, b) == a.m * Pow10(a.e - Min2(a.e, b.e)) + b.m * Pow10(b.e - Min2(a.e, b.e))

DecAdd(a, b) ==
    IF a.m = 0 THEN b
    ELSE IF b.m = 0 THEN a
    ELSE DecNorm(DecAligned(a, b), Min2(a.e, b.e))

DecZero == [m |-> 0, e |-> 0]
DecOne  == [m |-> 1, e |-> 0]

\* renderapi's AffineModel(M00, M01, M10, M11, B0, B1)
AffineModel(M00, M01, M10, M11, B0, B1) ==
    [M00 |-> M00, M01 |-> M01, M10 |-> M10, M11 |-> M11, B0 |-> B0, B1 |-> B1]

AffineIdentity == AffineModel(DecOne, DecZero, DecZero, DecOne, DecZero, DecZero)

\* tform.concatenate(AT): the model with matrix tform.M . AT.M
concatenate(tform, AT) == AffineModel(DecAdd(DecMul(tform.M00, AT.M00), DecMul(tform.M01, AT.M10)), DecAdd(DecMul(tform.M00, AT.M01), DecMul(tform.M01, AT.M11)), DecAdd(DecMul(tform.M10, AT.M00), DecMul(tform.M11, AT.M10)), DecAdd(DecMul(tform.M10, AT.M01), DecMul(tform.M11, AT.M11)), DecAdd(DecAdd(DecMul(tform.M00, AT.B0), DecMul(tform.M01, AT.B1)), tform.B0), DecAdd(DecAdd(DecMul(tform.M10, AT.B0), DecMul(tform.M11, AT.B1)), tform.B1))

\* lines 29-31: AT = AffineModel(); for tform in ts.tforms: AT = tform.concatenate(AT)
RECURSIVE TotalTransform(_, _)
TotalTransform(tforms, AT) ==
    IF tforms = <<>> THEN AT
    ELSE TotalTransform(Tail(tforms), concatenate(Head(tforms), AT))

\* ---- str() of a float

DigitChars == <<"0", "1", "2", "3", "4", "5", "6", "7", "8", "9">>

DigitSet == {DigitChars[i] : i \in 1..10}

DigitVal(c) == (CHOOSE i \in 1..10 : DigitChars[i] = c) - 1

RECURSIVE DigitsOf(_)
DigitsOf(n) == IF n < 10 THEN <<DigitChars[n + 1]>> ELSE DigitsOf(n \div 10) \o <<DigitChars[(n % 10) + 1]>>

Zeros(n) == [i \in 1..n |-> "0"]

\* positional notation of the digits ds times 10^e
Positional(ds, e) ==
    IF e >= 0 THEN ds \o Zeros(e) \o <<".", "0">>
    ELSE IF Len(ds) + e >= 1
         THEN SubSeq(ds, 1, Len(ds) + e) \o <<".">> \o SubSeq(ds, Len(ds) + e + 1, Len(ds))
         ELSE <<"0", ".">> \o Zeros(- e - Len(ds)) \o ds

\* scientific notation with decimal exponent E: d[.ddd]e+XX or d[.ddd]e-XX
Scientific(ds, E) ==
    <<ds[1]>> \o (IF Len(ds) > 1 THEN <<".">> \o Tail(ds) ELSE <<>>)
       \o <<"e", IF E < 0 THEN "-" ELSE "+">>
       \o (IF Abs(E) < 10 THEN <<"0">> ELSE <<>>) \o DigitsOf(Abs(E))

\* the exponent of the leading digit
LeadingExponent(d) == d.e + Len(DigitsOf(Abs(d.m))) - 1

\* the numeral without its sign: scientific when the leading exponent is
\* below -4 or at least 16, as float.__repr__ has it
Unsigned(d) ==
    IF d.m = 0 THEN <<"0", ".", "0">>
    ELSE IF LeadingExponent(d) < -4 \/ LeadingExponent(d) >= 16
         THEN Scientific(DigitsOf(Abs(d.m)), LeadingExponent(d))
         ELSE Positional(DigitsOf(Abs(d.m)), d.e)

FormatFloat(d) == (IF d.m < 0 THEN <<"-">> ELSE <<>>) \o Unsigned(d)

\* line 37: transform="matrix({AT.M00},{AT.M10},{AT.M01},{AT.M11},{AT.B0},{AT.B1})"
TransformAttribute(AT) == <<"m", "a", "t", "r", "i", "x", "(">> \o FormatFloat(AT.M00) \o <<",">> \o FormatFloat(AT.M10) \o <<",">> \o FormatFloat(AT.M01) \o <<",">> \o FormatFloat(AT.M11) \o <<",">> \o FormatFloat(AT.B0) \o <<",">> \o FormatFloat(AT.B1) \o <<")">>

\* ---- re.findall(r'-?[\d.]+(?:[Ee]-?\d+)?', text)

\* the index after the longest run of characters of cs that starts at i
RECURSIVE RunEnd(_, _, _)
RunEnd(s, i, cs) == IF i <= Len(s) /\ s[i] \in cs THEN RunEnd(s, i + 1, cs) ELSE i

\* where [\d.]+ starts for a match at i (after the optional minus)
MantissaStart(s, i) == IF s[i] = "-" THEN i + 1 ELSE i

MantissaEnd(s, i) == RunEnd(s, MantissaStart(s, i), DigitSet \cup {"."})

\* where \d+ of the exponent starts when [Ee] is at j
ExponentDigits(s, j) == IF j + 1 <= Len(s) /\ s[j + 1] = "-" THEN j + 2 ELSE j + 1

\* the index after (?:[Ee]-?\d+)? tried at j
GroupEnd(s, j) ==
    IF j <= Len(s) /\ s[j] \in {"e", "E"}
          /\ RunEnd(s, ExponentDigits(s, j), DigitSet) > ExponentDigits(s, j)
    THEN RunEnd(s, ExponentDigits(s, j), DigitSet)
    ELSE j

\* the index after the match that starts at i, or 0 if there is none
MatchEnd(s, i) ==
    IF MantissaEnd(s, i) > MantissaStart(s, i) THEN GroupEnd(s, MantissaEnd(s, i)) ELSE 0

RECURSIVE FindAll(_, _)
FindAll(s, i) ==
    IF i > Len(s) THEN <<>>
    ELSE IF MatchEnd(s, i) > 0 THEN <<SubSeq(s, i, MatchEnd(s, i) - 1)>> \o FindAll(s, MatchEnd(s, i))
    ELSE FindAll(s, i + 1)

\* ---- float(token)

IndexOf(s, cs) == IF \E i \in DOMAIN s : s[i] \in cs THEN CHOOSE i \in DOMAIN s : s[i] \in cs /\ \A j \in 1..(i - 1) : s[j] \notin cs ELSE 0

Unsign(s) == IF s # <<>> /\ s[1] = "-" THEN Tail(s) ELSE s

\* the token without sign, split at the exponent letter
MantissaOf(tok) == IF IndexOf(Unsign(tok), {"e", "E"}) = 0 THEN Unsign(tok) ELSE SubSeq(Unsign(tok), 1, IndexOf(Unsign(tok), {"e", "E"}) - 1)
ExponentOf(tok) == IF IndexOf(Unsign(tok), {"e", "E"}) = 0 THEN <<>> ELSE SubSeq(Unsign(tok), IndexOf(Unsign(tok), {"e", "E"}) + 1, Len(Unsign(tok)))

IntPart(mant) == IF IndexOf(mant, {"."}) = 0 THEN mant ELSE SubSeq(mant, 1, IndexOf(mant, {"."}) - 1)
FracPart(mant) == IF IndexOf(mant, {"."}) = 0 THEN <<>> ELSE SubSeq(mant, IndexOf(mant, {"."}) + 1, Len(mant))

RECURSIVE StripTrailingZeros(_)
StripTrailingZeros(ds) ==
    IF ds # <<>> /\ ds[Len(ds)] = "0" THEN StripTrailingZeros(SubSeq(ds, 1, Len(ds) - 1)) ELSE ds

RECURSIVE StripLeadingZeros(_)
StripLeadingZeros(ds) == IF ds # <<>> /\ ds[1] = "0" THEN StripLeadingZeros(Tail(ds)) ELSE ds

RECURSIVE NumberOf(_)
NumberOf(ds) == IF ds = <<>> THEN 0 ELSE 10 * NumberOf(SubSeq(ds, 1, Len(ds) - 1)) + DigitVal(ds[Len(ds)])

SignedNumberOf(s) == IF s # <<>> /\ s[1] = "-" THEN - NumberOf(Tail(s)) ELSE NumberOf(s)

\* float() accepts the token: digits with at most one point, and digits
\* after the exponent letter if there is one
IsFloatLiteral(tok) ==
    /\ \A i \in DOMAIN FracPart(MantissaOf(tok)) : FracPart(MantissaOf(tok))[i] # "."
    /\ Len(IntPart(MantissaOf(tok))) + Len(FracPart(MantissaOf(tok))) > 0
    /\ \A i \in DOMAIN IntPart(MantissaOf(tok)) : IntPart(MantissaOf(tok))[i] \in DigitSet

\* the significant digits and the power of ten of an unsigned mantissa
SignificantDigits(mant) ==
    IF StripTrailingZeros(FracPart(mant)) # <<>>
    THEN StripLeadingZeros(IntPart(mant) \o StripTrailingZeros(FracPart(mant)))
    ELSE StripLeadingZeros(StripTrailingZeros(IntPart(mant)))

PowerOfMantissa(mant) ==
    IF StripTrailingZeros(FracPart(mant)) # <<>>
    THEN - Len(StripTrailingZeros(FracPart(mant)))
    ELSE Len(IntPart(mant)) - Len(StripTrailingZeros(IntPart(mant)))

ParseFloat(tok) ==
    IF SignificantDigits(MantissaOf(tok)) = <<>> THEN DecZero
    ELSE [m |-> (IF tok[1] = "-" THEN -1 ELSE 1) * NumberOf(SignificantDigits(MantissaOf(tok))),
          e |-> PowerOfMantissa(MantissaOf(tok)) + SignedNumberOf(ExponentOf(tok))]

\* ---- the tiles

AScale      == AffineModel(Dec(5, -1), DecZero, DecZero, Dec(2, 0), DecZero, DecZero)
AShear      == AffineModel(DecOne, Dec(25, -2), DecZero, DecOne, DecZero, DecZero)
ATranslate  == AffineModel(DecOne, DecZero, DecZero, DecOne, Dec(3, 0), Dec(-125, -2))
ASmallShift == AffineModel(DecOne, DecZero, DecZero, DecOne, Dec(1, -5), DecZero)
AFarShift   == AffineModel(DecOne, DecZero, DecZero, DecOne, Dec(1, 16), DecZero)
AQuarterTurn == AffineModel(DecZero, Dec(-1, 0), DecOne, DecZero, DecZero, DecZero)

ElementaryTforms == {AScale, AShear, ATranslate, ASmallShift, AFarShift, AQuarterTurn}

\* the transform lists whose total is computed without rounding
TformListsOfPatch ==
    {l \in UNION {[1..n -> ElementaryTforms] : n \in 0..MaxTforms} :
        (\E i \in DOMAIN l : l[i] = AFarShift) =>
            \A i \in DOMAIN l : l[i] \notin {ATranslate, ASmallShift}}

InitPatch ==
    /\ IdleExceptPatch
    /\ xtforms \in TformListsOfPatch
    /\ xAT = None
    /\ xattr = <<>>
    /\ xparsed = None
    /\ xstep = "input"

\* create_patch_xml: the total transform and the transform attribute
CreatePatchXml ==
    /\ xstep = "input"
    /\ xAT' = TotalTransform(xtforms, AffineIdentity)
    /\ xattr' = TransformAttribute(TotalTransform(xtforms, AffineIdentity))
    /\ xstep' = "exported"
    /\ UNCHANGED <<xtforms, xparsed, ExceptPatch>>

Tokens == FindAll(xattr, 1)

\* lines 134-136 succeed: six tokens, each a float literal
Parses == Len(Tokens) = 6 /\ \A k \in 1..6 : IsFloatLiteral(Tokens[k])

\* M00, M10, M01, M11, B0, B1 = [float(i) for i in re.findall(...)];
\* A = AffineModel(M00, M01, M10, M11, B0, B1)
ImportPatch ==
    /\ xstep = "exported"
    /\ Parses
    /\ xparsed' = AffineModel(ParseFloat(Tokens[1]), ParseFloat(Tokens[3]), ParseFloat(Tokens[2]),
                              ParseFloat(Tokens[4]), ParseFloat(Tokens[5]), ParseFloat(Tokens[6]))
    /\ xstep' = "imported"
    /\ UNCHANGED <<xtforms, xAT, xattr, ExceptPatch>>

\* the unpacking of a list that has not six elements, or float() of a
\* token that is no literal: ValueError
ImportPatchRaises ==
    /\ xstep = "exported"
    /\ ~Parses
    /\ xstep' = "raised"
    /\ UNCHANGED <<xtforms, xAT, xattr, xparsed, ExceptPatch>>

NextPatch ==
    \/ CreatePatchXml
    \/ ImportPatch
    \/ ImportPatchRaises

SpecPatch == InitPatch /\ [][NextPatch]_vars

\* the affine that applies first, then second
AffineAfter(second, first) ==
    [M00 |-> DecAdd(DecMul(second.M00, first.M00), DecMul(second.M01, first.M10)),
     M01 |-> DecAdd(DecMul(second.M00, first.M01), DecMul(second.M01, first.M11)),
     M10 |-> DecAdd(DecMul(second.M10, first.M00), DecMul(second.M11, first.M10)),
     M11 |-> DecAdd(DecMul(second.M10, first.M01), DecMul(second.M11, first.M11)),
     B0  |-> DecAdd(DecAdd(DecMul(second.M00, first.B0), DecMul(second.M01, first.B1)), second.B0),
     B1  |-> DecAdd(DecAdd(DecMul(second.M10, first.B0), DecMul(second.M11, first.B1)), second.B1)]

\* the transforms of a list applied in list order, as one affine
RECURSIVE Cumulative(_)
Cumulative(tforms) ==
    IF tforms = <<>> THEN AffineIdentity
    ELSE AffineAfter(tforms[Len(tforms)], Cumulative(SubSeq(tforms, 1, Len(tforms) - 1)))

\* C29: the affine written by create_patch_xml is the tile's transform list
\* applied in list order, and import_trakem2_project reading the transform
\* attribute back obtains one affine with the same six coefficients
\* (M00, M01, M10, M11, B0, B1).
C29_ExportImportPreservesTransform ==
    /\ xstep \in {"exported", "imported", "raised"} =>
          xAT = Cumulative(xtforms)
    /\ xstep \in {"imported", "raised"} =>
          /\ xstep = "imported"
          /\ xparsed = xAT

=============================================================================
